---- MODULE Spec2Model ----
(***************************************************************************)
(* Model of the ProtonVPN NetworkManager library: the connection lifecycle *)
(* manager (lib/services/connection_manager.py) and the server catalogue   *)
(* cache (lib/services/server_manager.py).                                 *)
(*                                                                         *)
(* The NetworkManager client is an asynchronous service: a request is      *)
(* issued with a completion callback (dynamic_callback) and the caller     *)
(* blocks in GLib.MainLoop.run() until the callback calls main_loop.quit().*)
(* An exception raised inside a GLib callback is reported by the binding   *)
(* and discarded: it does not unwind main_loop.run().                      *)
(***************************************************************************)
EXTENDS Integers, Sequences, FiniteSets, TLC

VARIABLES
    connections,    \* NM.Client.get_connections(): sequence of records
    active,         \* NM.Client.get_active_connections(): sequence of uuids
    nextUuid,       \* uuid the service gives to the next registered record
    pending,        \* asynchronous requests issued and not yet completed
    stack,          \* frames of the caller, each blocked in main_loop.run()
    addCtx,         \* locals of the running add_connection
    removeConn,     \* local `conn` of the running remove_connection
    history,        \* calls that returned to the caller, with their outcome
    lastCallback,   \* last dynamic_callback run: what it dispatched and raised
    cleanupCalls,   \* arguments delete_cached_cert was invoked with
    requestLog,     \* (issue | done, callback_type) events, in order
    envCI,          \* os.environ.get(ENV_CI_NAME) is set
    now,            \* wall clock, minutes
    fs,             \* file system: path -> [kind, mtime, data]
    cacheDirExists, \* os.path.isdir(PROTON_XDG_CACHE_HOME)
    apiLog,         \* endpoints requested through session.api_request
    cacheResult,    \* last cache_servers call: arguments, pre-state, outcome
    served,         \* the catalogue the API serves at /vpn/logicals
    selection,      \* last strategy call: arguments, pre-state, outcome
    nameCheck       \* last is_servername_valid call: input and result

connVars  == <<connections, active, nextUuid, pending, stack, addCtx,
               removeConn, history, lastCallback, cleanupCalls, requestLog, envCI>>
cacheVars == <<now, fs, cacheDirExists, apiLog, cacheResult, served, selection,
               nameCheck>>
vars      == <<connections, active, nextUuid, pending, stack, addCtx,
               removeConn, history, lastCallback, cleanupCalls, requestLog, envCI,
               now, fs, cacheDirExists, apiLog, cacheResult, served, selection,
               nameCheck>>

---------------------------------------------------------------------------
(* Bounds of the model *)

\* number of top-level lifecycle calls in one behaviour
MaxOps == 3

\* last minute of the wall clock
MaxNow == 20

\* number of cache_servers calls in one behaviour
MaxCacheCalls == 2

\* number of strategy calls in one behaviour
MaxSelCalls == 1

---------------------------------------------------------------------------
(* Strings are sequences of one-character strings where the code inspects  *)
(* them character by character.                                            *)

IsSpace(c) == c \in {" ", "\t", "\n"}

RECURSIVE RStrip(_)
RStrip(s) ==
    IF s = <<>> THEN <<>>
    ELSE IF IsSpace(s[Len(s)]) THEN RStrip(SubSeq(s, 1, Len(s) - 1))
    ELSE s

\* sub in s
Contains(s, sub) ==
    \E i \in 1..(Len(s) - Len(sub) + 1) : SubSeq(s, i, i + Len(sub) - 1) = sub

\* str.split(): the maximal runs of non-whitespace characters
RECURSIVE SplitFrom(_, _, _)
SplitFrom(s, i, cur) ==
    IF i > Len(s)
    THEN IF cur = <<>> THEN <<>> ELSE <<cur>>
    ELSE IF IsSpace(s[i])
         THEN IF cur = <<>> THEN SplitFrom(s, i + 1, <<>>)
              ELSE <<cur>> \o SplitFrom(s, i + 1, <<>>)
         ELSE SplitFrom(s, i + 1, Append(cur, s[i]))

Split(s) == SplitFrom(s, 1, <<>>)

\* [x for x in seq if P(x)]
RECURSIVE SelectLines(_, _)
SelectLines(lines, sub) ==
    IF lines = <<>> THEN <<>>
    ELSE IF Contains(lines[1], sub)
         THEN <<RStrip(lines[1])>> \o SelectLines(Tail(lines), sub)
         ELSE SelectLines(Tail(lines), sub)

---------------------------------------------------------------------------
(* Connection profiles (.ovpn files) the caller may pass to add_connection *)

s_dev  == <<"d", "e", "v">>
s_tun  == <<"t", "u", "n">>
s_tap  == <<"t", "a", "p">>
l_client   == <<"c", "l", "i", "e", "n", "t", "\n">>
l_dev_tun  == <<"d", "e", "v", " ", "t", "u", "n", "\n">>
l_dev_tap  == <<"d", "e", "v", " ", "t", "a", "p", "\n">>
l_dev_tun0 == <<"d", "e", "v", " ", "t", "u", "n", "0", "\n">>
l_dev_ppp0 == <<"d", "e", "v", " ", "p", "p", "p", "0", "\n">>
l_dev_only == <<"d", "e", "v", "\n">>
l_tab_tap  == <<"d", "e", "v", "\t", "t", "a", "p", " ", " ", "\n">>
l_proto    == <<"p", "r", "o", "t", "o", " ", "u", "d", "p", "\n">>
l_devnode  == <<"#", " ", "d", "e", "v", "i", "c", "e", "\n">>

\* filename -> content lines; hasVpn: the imported connection has a VPN setting
ProfileFiles ==
    [ tun    |-> [lines |-> <<l_client, l_dev_tun, l_proto>>, hasVpn |-> TRUE],
      tap    |-> [lines |-> <<l_tab_tap, l_dev_tun>>,         hasVpn |-> TRUE],
      tun0   |-> [lines |-> <<l_client, l_dev_tun0>>,         hasVpn |-> TRUE],
      ppp0   |-> [lines |-> <<l_dev_ppp0>>,                   hasVpn |-> TRUE],
      nodev  |-> [lines |-> <<l_client, l_proto>>,            hasVpn |-> TRUE],
      devonly|-> [lines |-> <<l_dev_only, l_dev_tun>>,        hasVpn |-> TRUE],
      comment|-> [lines |-> <<l_devnode, l_dev_tun>>,         hasVpn |-> TRUE],
      novpn  |-> [lines |-> <<l_dev_tun>>,                    hasVpn |-> FALSE] ]

ProfileNames == DOMAIN ProfileFiles

\* a value that is not a str, and the blank strings
NONSTR == "<not-a-str>"
BlankStrings == {"", "  "}

IsStr(x)  == x # NONSTR
\* not x.strip()
IsBlank(x) == x \in BlankStrings

FilenameInputs == ProfileNames \cup {NONSTR, "  "}
UsernameInputs == {"user", NONSTR, ""}
PasswordInputs == {"secret", NONSTR, "  "}

\* what the caller-supplied delete_cached_cert does when probed with "test"
CleanupKinds == {"raises_not_found", "returns", "raises_other"}
SENTINEL == "test"

VIRTUAL_DEVICE_NAME == "proton0"

---------------------------------------------------------------------------
(* Records of the network-configuration service *)

\* records of the host that this library did not create
ForeignConnections ==
    << [uuid |-> 1, type |-> "802-3-ethernet", dev |-> "none",
        devtype |-> "none", file |-> "none", username |-> "none"],
       [uuid |-> 2, type |-> "vpn", dev |-> "tun0",
        devtype |-> "tun", file |-> "none", username |-> "none"] >>

ForeignUuids == {ForeignConnections[i].uuid : i \in DOMAIN ForeignConnections}
FirstUuid == Len(ForeignConnections) + 1

SeqToSet(s) == {s[i] : i \in DOMAIN s}

RECURSIVE SeqRemove(_, _)
SeqRemove(s, x) ==
    IF s = <<>> THEN <<>>
    ELSE IF s[1] = x THEN SeqRemove(Tail(s), x)
    ELSE <<s[1]>> \o SeqRemove(Tail(s), x)

RECURSIVE RemoveByUuid(_, _)
RemoveByUuid(conns, u) ==
    IF conns = <<>> THEN <<>>
    ELSE IF conns[1].uuid = u THEN RemoveByUuid(Tail(conns), u)
    ELSE <<conns[1]>> \o RemoveByUuid(Tail(conns), u)

ConnOf(conns, u) == CHOOSE c \in SeqToSet(conns) : c.uuid = u

\* the records recognized as "the" ProtonVPN connection
IsManaged(c) == c.type = "vpn" /\ c.dev = VIRTUAL_DEVICE_NAME
ManagedAll    == {c \in SeqToSet(connections) : IsManaged(c)}
ManagedActive == {u \in SeqToSet(active) :
                    \E c \in SeqToSet(connections) : c.uuid = u /\ IsManaged(c)}

---------------------------------------------------------------------------
(* ConnectionManager: pure helpers *)

CharsToName(tok) ==
    IF tok = s_tun THEN "tun" ELSE IF tok = s_tap THEN "tap" ELSE "other"

\* extract_virtual_device_type: [err, value]
extract_virtual_device_type(filename) ==
    LET content_list == ProfileFiles[filename].lines
        dev_type     == SelectLines(content_list, s_dev)
        toks         == IF dev_type = <<>> THEN <<>> ELSE Split(dev_type[1])
    IN  IF Len(toks) < 2
        THEN [err |-> "VirtualDeviceNotFound", value |-> "none"]
        ELSE IF toks[2] \in {s_tun, s_tap}
             THEN [err |-> "none", value |-> CharsToName(toks[2])]
             ELSE [err |-> "IllegalVirtualDevice", value |-> "none"]

\* plugin_manager.import_connection_from_file: the connection as the
\* profile describes it, before the library changes its VPN settings
import_connection_from_file(filename) ==
    [uuid |-> 0, type |-> "vpn", dev |-> "profile-dev", devtype |-> "none",
     file |-> filename, username |-> "none"]

\* a bug: a profile without a usable device type is registered as tun
set_virtual_device_type_DefaultsToTun(conn, filename) ==
    LET virtual_device_type == extract_virtual_device_type(filename)
    IN  [err |-> "none",
         conn |-> [conn EXCEPT !.dev = VIRTUAL_DEVICE_NAME,
                               !.devtype = IF virtual_device_type.err # "none"
                                           THEN "tun"
                                           ELSE virtual_device_type.value]]

\* a bug: the record keeps the device name of the profile
set_virtual_device_type_KeepsProfileDev(conn, filename) ==
    LET virtual_device_type == extract_virtual_device_type(filename)
    IN  IF virtual_device_type.err # "none"
        THEN [err |-> virtual_device_type.err, conn |-> conn]
        ELSE [err |-> "none",
              conn |-> [conn EXCEPT !.devtype = virtual_device_type.value]]

\* set_virtual_device_type: [err, conn]
set_virtual_device_type(conn, filename) ==
    LET virtual_device_type == extract_virtual_device_type(filename)
    IN  IF virtual_device_type.err # "none"
        THEN [err |-> virtual_device_type.err, conn |-> conn]
        ELSE [err |-> "none",
              conn |-> [conn EXCEPT !.dev = VIRTUAL_DEVICE_NAME,
                                    !.devtype = virtual_device_type.value]]

\* get_proton_connection over a list of records: <<FALSE>> or <<uuid, id>>
RECURSIVE FirstProton(_)
FirstProton(conns) ==
    IF conns = <<>> THEN <<FALSE>>
    ELSE IF conns[1].type = "vpn" /\ conns[1].dev = VIRTUAL_DEVICE_NAME
         THEN <<conns[1].uuid, conns[1].file>>
         ELSE FirstProton(Tail(conns))

ActiveRecords(conns, act) == [i \in DOMAIN act |-> ConnOf(conns, act[i])]

get_proton_connection(connection_type, conns, act) ==
    IF connection_type = "all_connections"
    THEN FirstProton(conns)
    ELSE FirstProton(ActiveRecords(conns, act))

IsNotFound(conn) == Len(conn) < 2 /\ conn[1] = FALSE

\* the first failing input check of add_connection, or "none"
AddValidation(filename, username, password) ==
    IF ~IsStr(filename) THEN "TypeError"
    ELSE IF IsBlank(filename) THEN "ValueError"
    ELSE IF ~IsStr(username) THEN "TypeError"
    ELSE IF ~IsStr(password) THEN "TypeError"
    ELSE IF IsBlank(username) \/ IsBlank(password) THEN "ValueError"
    ELSE "none"

\* a bug: the probe tolerates no exception, FileNotFoundError included
ProbeOutcome_NotFoundIsError(delete_cached_cert) ==
    IF delete_cached_cert # "returns" THEN "NotImplementedError" ELSE "none"

\* the probe delete_cached_cert("test"), lines 51-59
ProbeOutcome(delete_cached_cert) ==
    IF delete_cached_cert = "raises_other" THEN "NotImplementedError" ELSE "none"

\* an asynchronous request: the operation asked of the service (async_op, on
\* the object `source`), and the user data handed to dynamic_callback
Request(callback_type, source, target, conn, filename) ==
    [async_op |-> callback_type, callback_type |-> callback_type,
     source |-> source, target |-> target, conn |-> conn,
     filename |-> filename, main_loop |-> callback_type]

NoConn == import_connection_from_file("none")
NoCtx  == [conn |-> NoConn, filename |-> "none", delete_cached_cert |-> "none"]
NoCallback == [callback_type |-> "none", finish_function |-> "none",
               exception |-> "none", raised |-> "none", quit |-> FALSE]

Returned(op, outcome, file) == [op |-> op, outcome |-> outcome, file |-> file]

---------------------------------------------------------------------------
(* ConnectionManager: the operations *)

\* the call returns (a value or an exception) to the caller
ReturnToCaller(op, outcome, file) ==
    /\ history' = Append(history, Returned(op, outcome, file))
    /\ stack' = <<>>

\* client.<op>_async(..., self.dynamic_callback, dict(...)); main_loop.run()
\* `out` and `log`: the outstanding requests and the log when it is issued
IssueRequest(out, log, req, frames) ==
    /\ pending' = out \cup {req}
    /\ requestLog' = Append(log, <<"issue", req.callback_type>>)
    /\ stack' = frames

\* add_connection, lines 86-100
IssueAdd(out, log, ctx) ==
    /\ IssueRequest(out, log, Request("add", "Client", 0, ctx.conn, ctx.filename),
                    <<"add">>)
    /\ UNCHANGED history

\* remove_connection, lines 171-187
IssueDelete(out, log, base, uuid) ==
    /\ IssueRequest(out, log,
                    Request("remove", "RemoteConnection", uuid, NoConn, "none"),
                    Append(base, "remove"))
    /\ UNCHANGED history

\* a bug: stop_connection looks the record up among all records
stop_connection_AllLookup(base, rconn) ==
    LET conn == get_proton_connection("all_connections", connections, active)
    IN  IF IsNotFound(conn)
        THEN IF base = <<>>
             THEN /\ ReturnToCaller("stop", "False", "none")
                  /\ UNCHANGED <<pending, requestLog>>
             ELSE IssueDelete(pending, requestLog,
                              SubSeq(base, 1, Len(base) - 1), rconn)
        ELSE /\ IssueRequest(pending, requestLog,
                             Request("stop", "Client", conn[1], NoConn, "none"),
                             Append(base, "stop"))
             /\ UNCHANGED history

\* stop_connection, lines 130-156, called by the frames `base`
stop_connection(base, rconn) ==
    LET conn == get_proton_connection("active_connections", connections, active)
    IN  IF IsNotFound(conn)
        THEN \* return False
             IF base = <<>>
             THEN /\ ReturnToCaller("stop", "False", "none")
                  /\ UNCHANGED <<pending, requestLog>>
             ELSE IssueDelete(pending, requestLog,
                              SubSeq(base, 1, Len(base) - 1), rconn)
        ELSE /\ IssueRequest(pending, requestLog,
                             Request("stop", "Client", conn[1], NoConn, "none"),
                             Append(base, "stop"))
             /\ UNCHANGED history

\* a bug: remove_connection deletes the record without stopping it first
remove_connection_NoStop(base, ctx) ==
    LET conn == get_proton_connection("all_connections", connections, active)
    IN  IF IsNotFound(conn)
        THEN /\ UNCHANGED removeConn
             /\ IF base = <<>>
                THEN /\ ReturnToCaller("remove", "ConnectionNotFound", "none")
                     /\ UNCHANGED <<pending, requestLog>>
                ELSE IssueAdd(pending, requestLog, ctx)
        ELSE /\ removeConn' = conn[1]
             /\ IssueDelete(pending, requestLog, base, conn[1])

\* a bug: remove_connection looks the record up among the active records
remove_connection_ActiveLookup(base, ctx) ==
    LET conn == get_proton_connection("active_connections", connections, active)
    IN  IF IsNotFound(conn)
        THEN /\ UNCHANGED removeConn
             /\ IF base = <<>>
                THEN /\ ReturnToCaller("remove", "ConnectionNotFound", "none")
                     /\ UNCHANGED <<pending, requestLog>>
                ELSE IssueAdd(pending, requestLog, ctx)
        ELSE /\ removeConn' = conn[1]
             /\ stop_connection(Append(base, "remove"), conn[1])

\* a bug: add_connection lets the ConnectionNotFound of its removal out
remove_connection_NotFoundLeavesAdd(base, ctx) ==
    LET conn == get_proton_connection("all_connections", connections, active)
    IN  IF IsNotFound(conn)
        THEN /\ UNCHANGED <<removeConn, pending, requestLog>>
             /\ ReturnToCaller(IF base = <<>> THEN "remove" ELSE base[1],
                               "ConnectionNotFound", "none")
        ELSE /\ removeConn' = conn[1]
             /\ stop_connection(Append(base, "remove"), conn[1])

\* remove_connection, lines 158-169, called by the frames `base`
remove_connection(base, ctx) ==
    LET conn == get_proton_connection("all_connections", connections, active)
    IN  IF IsNotFound(conn)
        THEN \* raise ConnectionNotFound
             /\ UNCHANGED removeConn
             /\ IF base = <<>>
                THEN /\ ReturnToCaller("remove", "ConnectionNotFound", "none")
                     /\ UNCHANGED <<pending, requestLog>>
                ELSE \* add_connection, lines 83-84: except ConnectionNotFound: pass
                     IssueAdd(pending, requestLog, ctx)
        ELSE /\ removeConn' = conn[1]
             /\ stop_connection(Append(base, "remove"), conn[1])

\* a bug: add_connection registers the record without removing the old one
RemoveThenAdd_NoRemove(ctx) ==
    /\ IssueAdd(pending, requestLog, ctx)
    /\ UNCHANGED removeConn

\* add_connection, lines 81-100
RemoveThenAdd(ctx) == remove_connection(<<"add">>, ctx)

CanCall == stack = <<>> /\ pending = {} /\ Len(history) < MaxOps

AddConnection(filename, username, password, delete_cached_cert) ==
    /\ CanCall
    /\ UNCHANGED <<connections, active, nextUuid, lastCallback, envCI>>
    /\ LET invalid == AddValidation(filename, username, password)
           probe   == ProbeOutcome(delete_cached_cert)
           probed  == Append(cleanupCalls, SENTINEL)
           conn    == [import_connection_from_file(filename)
                         EXCEPT !.username = username]
           svd     == set_virtual_device_type(conn, filename)
           ctx     == [conn |-> svd.conn, filename |-> filename,
                       delete_cached_cert |-> delete_cached_cert]
       IN  IF invalid # "none"
           THEN /\ ReturnToCaller("add", invalid, "none")
                /\ UNCHANGED <<pending, requestLog, addCtx, removeConn, cleanupCalls>>
           ELSE /\ cleanupCalls' = probed
                /\ IF probe # "none"
                   THEN /\ ReturnToCaller("add", probe, "none")
                        /\ UNCHANGED <<pending, requestLog, addCtx, removeConn>>
                   ELSE IF ~ProfileFiles[filename].hasVpn
                   THEN /\ ReturnToCaller("add", "AddConnectionCredentialsError", "none")
                        /\ UNCHANGED <<pending, requestLog, addCtx, removeConn>>
                   ELSE IF svd.err # "none"
                   THEN /\ ReturnToCaller("add", svd.err, "none")
                        /\ UNCHANGED <<pending, requestLog, addCtx, removeConn>>
                   ELSE /\ addCtx' = ctx
                        /\ RemoveThenAdd(ctx)

\* a bug: start_connection looks the record up among the active records
StartConnection_ActiveLookup ==
    /\ CanCall
    /\ UNCHANGED <<connections, active, nextUuid, lastCallback, envCI,
                   addCtx, removeConn, cleanupCalls>>
    /\ LET conn == get_proton_connection("active_connections", connections, active)
       IN  IF IsNotFound(conn)
           THEN /\ ReturnToCaller("start", "ConnectionNotFound", "none")
                /\ UNCHANGED <<pending, requestLog>>
           ELSE /\ IssueRequest(pending, requestLog,
                                Request("start", "Client", conn[1], NoConn, "none"),
                                <<"start">>)
                /\ UNCHANGED history

\* start_connection, lines 102-128
StartConnection ==
    /\ CanCall
    /\ UNCHANGED <<connections, active, nextUuid, lastCallback, envCI,
                   addCtx, removeConn, cleanupCalls>>
    /\ LET conn == get_proton_connection("all_connections", connections, active)
       IN  IF IsNotFound(conn)
           THEN /\ ReturnToCaller("start", "ConnectionNotFound", "none")
                /\ UNCHANGED <<pending, requestLog>>
           ELSE /\ IssueRequest(pending, requestLog,
                                Request("start", "Client", conn[1], NoConn, "none"),
                                <<"start">>)
                /\ UNCHANGED history

StopConnection ==
    /\ CanCall
    /\ UNCHANGED <<connections, active, nextUuid, lastCallback, envCI,
                   addCtx, removeConn, cleanupCalls>>
    /\ stop_connection(<<>>, 0)

RemoveConnection ==
    /\ CanCall
    /\ UNCHANGED <<connections, active, nextUuid, lastCallback, envCI,
                   addCtx, cleanupCalls>>
    /\ remove_connection(<<>>, NoCtx)

---------------------------------------------------------------------------
(* The network-configuration service: the effect of a completed request *)

\* add_connection_async / delete_async on the records
ServiceConnections(req, ok) ==
    IF ~ok THEN connections
    ELSE IF req.async_op = "add"
         THEN Append(connections, [req.conn EXCEPT !.uuid = nextUuid])
    ELSE IF req.async_op = "remove"
         THEN RemoveByUuid(connections, req.target)
    ELSE connections

\* activate_connection_async / deactivate_connection_async / delete_async
\* on the active records
ServiceActive(req, ok) ==
    IF ~ok THEN active
    ELSE IF req.async_op = "start"
         THEN IF req.target \in SeqToSet(active) THEN active
              ELSE Append(active, req.target)
    ELSE IF req.async_op \in {"stop", "remove"}
         THEN SeqRemove(active, req.target)
    ELSE active

\* the <op>_finish method that completes each asynchronous operation
FinishOf(async_op) ==
    CASE async_op = "add"    -> "add_connection_finish"
      [] async_op = "start"  -> "activate_connection_finish"
      [] async_op = "stop"   -> "deactivate_connection_finish"
      [] async_op = "remove" -> "delete_finish"

---------------------------------------------------------------------------
(* dynamic_callback *)

\* lines 196-217: `client` is the object the request was made on; only a
\* RemoteConnection has delete_finish, NM.Client raises AttributeError
callback_type_dict(source) ==
    IF source = "RemoteConnection"
    THEN [remove |-> [finish_function |-> "delete_finish",
                      exception |-> "RemoveConnectionFinishError"]]
    ELSE [add   |-> [finish_function |-> "add_connection_finish",
                     exception |-> "AddConnectionFinishError"],
          start |-> [finish_function |-> "activate_connection_finish",
                     exception |-> "StartConnectionFinishError"],
          stop  |-> [finish_function |-> "deactivate_connection_finish",
                     exception |-> "StopConnectionFinishError"]]

\* lines 219-226: the exception the callback raises, or "none"
CallbackRaises(req, ok) ==
    LET d == callback_type_dict(req.source)
    IN  IF req.callback_type \notin DOMAIN d THEN "KeyError"
        ELSE IF ~ok \/ d[req.callback_type].finish_function # FinishOf(req.async_op)
             THEN d[req.callback_type].exception
        ELSE "none"

\* a bug: the cleanup ignores the CI flag
CleanupAfter_IgnoresCI(req, calls) ==
    IF req.callback_type = "add"
    THEN Append(calls, req.filename)
    ELSE calls

\* lines 228-230; delete_cached_cert(filename) removes the certificate file
\* that add_connection has just imported, and returns
CleanupAfter(req, calls) ==
    IF ~envCI /\ req.callback_type = "add"
    THEN Append(calls, req.filename)
    ELSE calls

\* a bug: add_connection registers the new record as soon as the pre-add
\* removal has stopped the old one, while the delete request is in flight
Resume_AddWithoutWaiting(req, out, log) ==
    LET base == SubSeq(stack, 1, Len(stack) - 1)
    IN  IF req.main_loop = "stop" /\ base # <<>>
        THEN IF Len(base) > 1
             THEN /\ pending' = out \cup
                        {Request("remove", "RemoteConnection", removeConn, NoConn, "none"),
                         Request("add", "Client", 0, addCtx.conn, addCtx.filename)}
                  /\ requestLog' = log \o <<<<"issue", "remove">>, <<"issue", "add">>>>
                  /\ stack' = <<"add">>
                  /\ UNCHANGED history
             ELSE IssueDelete(out, log, SubSeq(base, 1, Len(base) - 1), removeConn)
        ELSE IF req.main_loop = "remove" /\ base # <<>>
        THEN IssueAdd(out, log, addCtx)
        ELSE /\ ReturnToCaller(req.main_loop, "None", req.filename)
             /\ pending' = out
             /\ requestLog' = log

\* a bug: the removal made by add_connection stops the old record and does
\* not delete it
Resume_StopOnlyInAdd(req, out, log) ==
    LET base == SubSeq(stack, 1, Len(stack) - 1)
    IN  IF req.main_loop = "stop" /\ base # <<>>
        THEN IF Len(base) > 1
             THEN IssueAdd(out, log, addCtx)
             ELSE IssueDelete(out, log, SubSeq(base, 1, Len(base) - 1), removeConn)
        ELSE IF req.main_loop = "remove" /\ base # <<>>
        THEN IssueAdd(out, log, addCtx)
        ELSE /\ ReturnToCaller(req.main_loop, "None", req.filename)
             /\ pending' = out
             /\ requestLog' = log

\* main_loop.quit(): main_loop.run() returns in the frame that owns the loop
\* and that frame goes on to its end or to its next request
Resume(req, out, log) ==
    LET base == SubSeq(stack, 1, Len(stack) - 1)
    IN  IF req.main_loop = "stop" /\ base # <<>>
        THEN \* back in remove_connection, line 171
             IssueDelete(out, log, SubSeq(base, 1, Len(base) - 1), removeConn)
        ELSE IF req.main_loop = "remove" /\ base # <<>>
        THEN \* back in add_connection, line 86
             IssueAdd(out, log, addCtx)
        ELSE /\ ReturnToCaller(req.main_loop, "None", req.filename)
             /\ pending' = out
             /\ requestLog' = log

\* a bug: the cleanup runs before the result of the request is looked at
DynamicCallback_CleanupBeforeFinish(ok) ==
    \E req \in pending :
        LET d      == callback_type_dict(req.source)
            raised == CallbackRaises(req, ok)
            entry  == IF req.callback_type \in DOMAIN d
                      THEN d[req.callback_type]
                      ELSE [finish_function |-> "none", exception |-> "none"]
            out    == pending \ {req}
            log    == Append(requestLog, <<"done", req.callback_type>>)
        IN  /\ stack # <<>>
            /\ connections' = ServiceConnections(req, ok)
            /\ active' = ServiceActive(req, ok)
            /\ nextUuid' = IF ok /\ req.async_op = "add"
                           THEN nextUuid + 1 ELSE nextUuid
            /\ lastCallback' = [callback_type |-> req.callback_type,
                                finish_function |-> entry.finish_function,
                                exception |-> entry.exception,
                                raised |-> raised,
                                quit |-> raised = "none"]
            /\ UNCHANGED <<addCtx, removeConn, envCI>>
            /\ IF raised # "none"
               THEN \* the exception leaves the callback: no cleanup, no quit
                    /\ pending' = out
                    /\ requestLog' = log
                    /\ cleanupCalls' = CleanupAfter(req, cleanupCalls)
                    /\ UNCHANGED <<stack, history>>
               ELSE /\ cleanupCalls' = CleanupAfter(req, cleanupCalls)
                    /\ Resume(req, out, log)

\* dynamic_callback, lines 189-232
DynamicCallback(ok) ==
    \E req \in pending :
        LET d      == callback_type_dict(req.source)
            raised == CallbackRaises(req, ok)
            entry  == IF req.callback_type \in DOMAIN d
                      THEN d[req.callback_type]
                      ELSE [finish_function |-> "none", exception |-> "none"]
            out    == pending \ {req}
            log    == Append(requestLog, <<"done", req.callback_type>>)
        IN  /\ stack # <<>>
            /\ connections' = ServiceConnections(req, ok)
            /\ active' = ServiceActive(req, ok)
            /\ nextUuid' = IF ok /\ req.async_op = "add"
                           THEN nextUuid + 1 ELSE nextUuid
            /\ lastCallback' = [callback_type |-> req.callback_type,
                                finish_function |-> entry.finish_function,
                                exception |-> entry.exception,
                                raised |-> raised,
                                quit |-> raised = "none"]
            /\ UNCHANGED <<addCtx, removeConn, envCI>>
            /\ IF raised # "none"
               THEN \* the exception leaves the callback: no cleanup, no quit
                    /\ pending' = out
                    /\ requestLog' = log
                    /\ UNCHANGED <<stack, history, cleanupCalls>>
               ELSE /\ cleanupCalls' = CleanupAfter(req, cleanupCalls)
                    /\ Resume(req, out, log)

---------------------------------------------------------------------------
(* ServerManager: the catalogue cache *)

\* ServerManager.REFRESH_INTERVAL, minutes
REFRESH_INTERVAL == 15

CACHED_SERVERLIST == "cache/serverlist.json"
OtherPath == "other.json"
DirPath   == "somedir"

FsPaths    == {CACHED_SERVERLIST, OtherPath, DirPath}
PathInputs == FsPaths \cup {NONSTR, ""}

AbsentFile == [kind |-> "absent", mtime |-> 0, data |-> 0]

isdir(files, path)  == path \in DOMAIN files /\ files[path].kind = "dir"
isfile(files, path) == path \in DOMAIN files /\ files[path].kind = "file"

\* a bug: a directory passes as a cache path
PathCheck_NoDirCheck(files, path) ==
    IF ~IsStr(path) THEN "TypeError"
    ELSE IF path = "" THEN "FileNotFoundError"
    ELSE "none"

\* lines 345-359: the exception the path checks raise, or "none"
PathCheck(files, path) ==
    IF ~IsStr(path) THEN "TypeError"
    ELSE IF path = "" THEN "FileNotFoundError"
    ELSE IF isdir(files, path) THEN "IsADirectoryError"
    ELSE "none"

\* lines 364-369: getmtime, or now when the file does not exist
last_modified_time(files, path, now_time) ==
    IF files[path].kind = "absent" THEN now_time ELSE files[path].mtime

\* a bug: a cache exactly REFRESH_INTERVAL minutes old counts as stale
RefreshDue_Inclusive(files, path, now_time, force) ==
    LET time_ago == now_time - REFRESH_INTERVAL
    IN  \/ ~isfile(files, path)
        \/ time_ago >= last_modified_time(files, path, now_time)
        \/ force

\* lines 371-378
RefreshDue(files, path, now_time, force) ==
    LET time_ago == now_time - REFRESH_INTERVAL
    IN  \/ ~isfile(files, path)
        \/ time_ago > last_modified_time(files, path, now_time)
        \/ force

\* session.api_request(endpoint="/vpn/logicals"): the catalogue the API holds
\* when asked, told apart by the number of the request
ApiResponse(log) == Len(log) + 1

NoCacheCall == [called |-> FALSE, force |-> FALSE, path |-> "none",
                at |-> 0, before |-> AbsentFile, requests |-> 0,
                calls |-> 0, outcome |-> "none"]

CacheServers(force, cached_serverlist) ==
    /\ cacheResult.calls < MaxCacheCalls
    /\ LET err  == PathCheck(fs, cached_serverlist)
           call == [called |-> TRUE, force |-> force, path |-> cached_serverlist,
                    at |-> now,
                    before |-> IF cached_serverlist \in FsPaths
                               THEN fs[cached_serverlist] ELSE AbsentFile,
                    requests |-> Len(apiLog),
                    calls |-> cacheResult.calls + 1, outcome |-> "none"]
       IN  IF err # "none"
           THEN /\ cacheResult' = [call EXCEPT !.outcome = err]
                /\ UNCHANGED <<fs, cacheDirExists, apiLog>>
           ELSE /\ cacheDirExists' = TRUE
                /\ IF RefreshDue(fs, cached_serverlist, now, force)
                   THEN /\ apiLog' = Append(apiLog, "/vpn/logicals")
                        /\ fs' = [fs EXCEPT ![cached_serverlist] =
                                    [kind |-> "file", mtime |-> now,
                                     data |-> ApiResponse(apiLog)]]
                        /\ cacheResult' = [call EXCEPT !.outcome = "fetched"]
                   ELSE /\ cacheResult' = [call EXCEPT !.outcome = "kept"]
                        /\ UNCHANGED <<fs, apiLog>>
    /\ UNCHANGED <<now, served, selection, nameCheck>>

\* time passes
Tick ==
    /\ now < MaxNow
    /\ now' = now + 1
    /\ UNCHANGED <<fs, cacheDirExists, apiLog, cacheResult, served, selection,
                   nameCheck>>

---------------------------------------------------------------------------
(* Character-level string operations of the server manager *)

LowerLetters == <<"a", "b", "c", "d", "e", "f", "g", "h", "i", "j", "k", "l", "m", "n", "o", "p", "q", "r", "s", "t", "u", "v", "w", "x", "y", "z">>
UpperLetters == <<"A", "B", "C", "D", "E", "F", "G", "H", "I", "J", "K", "L", "M", "N", "O", "P", "Q", "R", "S", "T", "U", "V", "W", "X", "Y", "Z">>
Digits       == <<"0", "1", "2", "3", "4", "5", "6", "7", "8", "9">>

IsUpper(c) == c \in SeqToSet(UpperLetters)
IsDigit(c) == c \in SeqToSet(Digits)
\* \w
IsWord(c)  == c \in SeqToSet(UpperLetters) \cup SeqToSet(LowerLetters)
                    \cup SeqToSet(Digits) \cup {"_"}

UpperChar(c) ==
    IF c \in SeqToSet(LowerLetters)
    THEN UpperLetters[CHOOSE i \in DOMAIN LowerLetters : LowerLetters[i] = c]
    ELSE c
LowerChar(c) ==
    IF c \in SeqToSet(UpperLetters)
    THEN LowerLetters[CHOOSE i \in DOMAIN UpperLetters : UpperLetters[i] = c]
    ELSE c

\* str.upper(), str.lower()
Upper(s) == [i \in DOMAIN s |-> UpperChar(s[i])]
Lower(s) == [i \in DOMAIN s |-> LowerChar(s[i])]

RECURSIVE LStrip(_)
LStrip(s) ==
    IF s = <<>> THEN <<>>
    ELSE IF IsSpace(s[1]) THEN LStrip(Tail(s))
    ELSE s

\* str.strip()
Strip(s) == RStrip(LStrip(s))

\* str.lstrip("0")
RECURSIVE LStripZeros(_)
LStripZeros(s) ==
    IF s = <<>> THEN <<>>
    ELSE IF s[1] = "0" THEN LStripZeros(Tail(s))
    ELSE s

\* the decimal digits of a natural number
RECURSIVE IntToChars(_)
IntToChars(n) ==
    IF n < 10 THEN <<Digits[n + 1]>>
    ELSE Append(IntToChars(n \div 10), Digits[(n % 10) + 1])

---------------------------------------------------------------------------
(* The server catalogue: /vpn/logicals responses and the cache file's content *)

\* a catalogue with every feature bitmask, tier and status the strategies test
MixedCatalog == <<
    [Name |-> <<"P", "T", "#", "1">>, Tier |-> 0, Status |-> 1, Features |-> 0,
     Score |-> 30, ExitCountry |-> <<"P", "T">>,
     Servers |-> <<[EntryIP |-> 1011], [EntryIP |-> 1012]>>],
    [Name |-> <<"P", "T", "#", "2">>, Tier |-> 1, Status |-> 1, Features |-> 4,
     Score |-> 10, ExitCountry |-> <<"P", "T">>,
     Servers |-> <<[EntryIP |-> 1021]>>],
    [Name |-> <<"P", "T", "#", "3", "-", "T", "O", "R">>, Tier |-> 1, Status |-> 1, Features |-> 2,
     Score |-> 5, ExitCountry |-> <<"P", "T">>,
     Servers |-> <<[EntryIP |-> 1031]>>],
    [Name |-> <<"I", "S", "-", "D", "E", "#", "1">>, Tier |-> 2, Status |-> 1, Features |-> 1,
     Score |-> 1, ExitCountry |-> <<"D", "E">>,
     Servers |-> <<[EntryIP |-> 1041], [EntryIP |-> 1042]>>],
    [Name |-> <<"C", "H", "#", "5">>, Tier |-> 0, Status |-> 0, Features |-> 0,
     Score |-> 2, ExitCountry |-> <<"C", "H">>,
     Servers |-> <<[EntryIP |-> 1051]>>],
    [Name |-> <<"U", "S", "-", "F", "R", "E", "E", "#", "1">>, Tier |-> 0, Status |-> 1, Features |-> 0,
     Score |-> 40, ExitCountry |-> <<"U", "S">>,
     Servers |-> <<[EntryIP |-> 1061]>>],
    [Name |-> <<"S", "E", "#", "7">>, Tier |-> 1, Status |-> 1, Features |-> 6,
     Score |-> 3, ExitCountry |-> <<"S", "E">>,
     Servers |-> <<[EntryIP |-> 1071]>>],
    [Name |-> <<"C", "H", "-", "U", "S", "#", "2">>, Tier |-> 2, Status |-> 1, Features |-> 5,
     Score |-> 2, ExitCountry |-> <<"U", "S">>,
     Servers |-> <<[EntryIP |-> 1081]>>]
>>

\* the catalogue a cache file left behind by an earlier run holds
OldCatalog == <<
    [Name |-> <<"P", "T", "#", "9">>, Tier |-> 0, Status |-> 1, Features |-> 0,
     Score |-> 7, ExitCountry |-> <<"P", "T">>,
     Servers |-> <<[EntryIP |-> 1991]>>],
    [Name |-> <<"P", "T", "#", "1">>, Tier |-> 0, Status |-> 1, Features |-> 0,
     Score |-> 30, ExitCountry |-> <<"P", "T">>,
     Servers |-> <<[EntryIP |-> 1911]>>],
    [Name |-> <<"D", "E", "#", "3">>, Tier |-> 1, Status |-> 1, Features |-> 0,
     Score |-> 6, ExitCountry |-> <<"D", "E">>,
     Servers |-> <<[EntryIP |-> 1931]>>],
    [Name |-> <<"N", "L", "#", "8">>, Tier |-> 0, Status |-> 0, Features |-> 4,
     Score |-> 8, ExitCountry |-> <<"N", "L">>,
     Servers |-> <<[EntryIP |-> 1981]>>]
>>

\* pools of 49, 50 and 51 P2P servers for session tiers 0, 1 and 2
BigSize == 51
BigCatalog ==
    [i \in 1..BigSize |->
        [Name |-> <<"C", "H", "#">> \o IntToChars(i),
         Tier |-> IF i <= BigSize - 2 THEN 0 ELSE i - (BigSize - 2),
         Status |-> 1, Features |-> 4,
         Score |-> (i * 17) % 53, ExitCountry |-> <<"C", "H">>,
         Servers |-> <<[EntryIP |-> i]>>]]

\* every server of the catalogue is above tier 0
PaidCatalog == <<
    [Name |-> <<"N", "L", "#", "4">>, Tier |-> 1, Status |-> 1, Features |-> 0,
     Score |-> 4, ExitCountry |-> <<"N", "L">>,
     Servers |-> <<[EntryIP |-> 1441]>>]
>>

CatalogNames == {"mixed", "big", "paid"}
Tiers == 0..2

Logicals(name) ==
    CASE name = "mixed" -> MixedCatalog
      [] name = "big"   -> BigCatalog
      [] name = "paid"  -> PaidCatalog

\* json.load of a cache file: data 0 is the file of the earlier run, any other
\* data is a response of /vpn/logicals
CatalogOf(data) ==
    IF data = 0 THEN OldCatalog ELSE Logicals(served.logicals)

---------------------------------------------------------------------------
(* Servername grammar: the two regular expressions of is_servername_valid *)

CharAt(s, i) == IF i \in DOMAIN s THEN s[i] ELSE ""

\* s[i-1:j] of Python: the characters at positions i..j that exist
Slice(s, i, j) == SubSeq(s, i, IF j <= Len(s) THEN j ELSE Len(s))

\* (-|#)? at position i: the position after it
AfterSep(s, i) == IF CharAt(s, i) \in {"-", "#"} THEN i + 1 ELSE i

\* the length of the run of digits that starts at position i
RECURSIVE DigitRun(_, _)
DigitRun(s, i) == IF IsDigit(CharAt(s, i)) THEN 1 + DigitRun(s, i + 1) ELSE 0

\* $ matches at the end of the string and before a final newline
AtEnd(s, i) == i = Len(s) + 1 \/ (i = Len(s) /\ s[i] = "\n")

NoMatch == [matched |-> FALSE, number |-> <<>>, tor |-> FALSE]

\* (\d{1,3})-?(TOR)?$ at position i: the digits cannot be split another way,
\* since what follows them is "-", "T" or the end
NumberTail(s, i) ==
    LET n     == DigitRun(s, i)
        j     == i + n
        k     == IF CharAt(s, j) = "-" THEN j + 1 ELSE j
        tor   == Slice(s, k, k + 2) = <<"T", "O", "R">>
        stop  == IF tor THEN k + 3 ELSE k
    IN  IF n \in 1..3 /\ AtEnd(s, stop)
        THEN [matched |-> TRUE, number |-> SubSeq(s, i, j - 1), tor |-> tor]
        ELSE NoMatch

\* line 506: ^((\w\w)(-|#)?(\d{1,3})-?(TOR)?)$
re_short(s) ==
    IF IsWord(CharAt(s, 1)) /\ IsWord(CharAt(s, 2))
    THEN NumberTail(s, AfterSep(s, 3))
    ELSE NoMatch

\* ([A-Z]{2}|FREE) at position i: its length, 0 when neither alternative is
\* there; two capitals are tried first and FREE only where "FR" is followed by
\* "EE", which no separator or digit can match
SecondCode(s, i) ==
    IF Slice(s, i, i + 3) = <<"F", "R", "E", "E">> THEN 4
    ELSE IF IsUpper(CharAt(s, i)) /\ IsUpper(CharAt(s, i + 1)) THEN 2
    ELSE 0

\* lines 508-510: ^(((\w\w)(-|#)?([A-Z]{2}|FREE))(-|#)?(\d{1,3})-?(TOR)?)$
re_long(s) ==
    LET i == AfterSep(s, 3)
        n == SecondCode(s, i)
    IN  IF IsWord(CharAt(s, 1)) /\ IsWord(CharAt(s, 2)) /\ n > 0
        THEN NumberTail(s, AfterSep(s, i + n))
        ELSE NoMatch

TorSuffix(tor) == IF tor THEN <<"-", "T", "O", "R">> ELSE <<>>

\* lines 511-534: the name is_servername_valid builds, <<>> while it is False
return_servername(servername) ==
    LET short == re_short(servername)
        long  == re_long(servername)
        i     == AfterSep(servername, 3)
    IN  IF short.matched
        THEN Slice(servername, 1, 2) \o <<"#">> \o LStripZeros(short.number)
                \o TorSuffix(short.tor)
        ELSE IF long.matched
        THEN Slice(servername, 1, 2) \o <<"-">>
                \o Slice(servername, i, i + SecondCode(servername, i) - 1)
                \o <<"#">> \o LStripZeros(long.number) \o TorSuffix(long.tor)
        ELSE <<>>

\* line 536
is_servername_valid(servername) == return_servername(servername) # <<>>

---------------------------------------------------------------------------
(* Server selection: the pure steps of the strategies *)

ValidSession == "Session"
\* a well-formed call, and one call for every check of
\* validate_session_protocol
ValidCaller  == <<ValidSession, "tcp">>
CallerInputs == {ValidCaller, <<"<not-a-session>", "tcp">>,
                 <<ValidSession, NONSTR>>, <<ValidSession, "">>}

\* every argument tuple of a well-formed caller, and every caller without
\* arguments
CallInputs(arguments) ==
    {<<ValidCaller, args>> : args \in arguments}
    \cup {<<caller, <<>>>> : caller \in CallerInputs}

\* lines 304-332: the exception raised, or "none"
validate_session_protocol(session, protocol) ==
    IF session # ValidSession THEN "TypeError"
    ELSE IF ~IsStr(protocol) THEN "TypeError"
    ELSE IF protocol = "" THEN "ValueError"
    ELSE "none"

\* lines 334-383 as a function of the file system and the request log
cache_servers(files, log, now_time, force, cached_serverlist) ==
    LET err == PathCheck(files, cached_serverlist)
    IN  IF err # "none"
        THEN [err |-> err, files |-> files, log |-> log, mkdir |-> FALSE]
        ELSE IF RefreshDue(files, cached_serverlist, now_time, force)
        THEN [err |-> "none",
              files |-> [files EXCEPT ![cached_serverlist] =
                           [kind |-> "file", mtime |-> now_time,
                            data |-> ApiResponse(log)]],
              log |-> Append(log, "/vpn/logicals"), mkdir |-> TRUE]
        ELSE [err |-> "none", files |-> files, log |-> log, mkdir |-> TRUE]

\* lines 423-432: the MaxTier the API reports for the session
fetch_user_tier == served.MaxTier

\* a bug: servers under maintenance stay in the list
filter_servers_AnyStatus(files, log) ==
    IF ~isfile(files, CACHED_SERVERLIST)
    THEN [err |-> "FileNotFoundError", servers |-> <<>>, log |-> log,
          read |-> <<>>]
    ELSE LET server_data == CatalogOf(files[CACHED_SERVERLIST].data)
             user_tier   == fetch_user_tier
             Keep(server) == server.Tier <= user_tier
         IN  [err |-> "none", servers |-> SelectSeq(server_data, Keep),
              log |-> Append(log, "/vpn"),
              read |-> <<files[CACHED_SERVERLIST].data>>]

\* lines 404-421: open() of a missing cache file raises before the tier is
\* fetched
filter_servers(files, log) ==
    IF ~isfile(files, CACHED_SERVERLIST)
    THEN [err |-> "FileNotFoundError", servers |-> <<>>, log |-> log,
          read |-> <<>>]
    ELSE LET server_data == CatalogOf(files[CACHED_SERVERLIST].data)
             user_tier   == fetch_user_tier
             Keep(server) == server.Tier <= user_tier /\ server.Status = 1
         IN  [err |-> "none", servers |-> SelectSeq(server_data, Keep),
              log |-> Append(log, "/vpn"),
              read |-> <<files[CACHED_SERVERLIST].data>>]

\* sorted(pool, key=Score): stable, servers of equal Score keep the order of
\* the pool
StableSort(pool) ==
    LET Before(j, i) == \/ pool[j].Score < pool[i].Score
                        \/ /\ pool[j].Score = pool[i].Score
                           /\ j < i
        rank == [i \in DOMAIN pool |->
                    1 + Cardinality({j \in DOMAIN pool : Before(j, i)})]
    IN  [k \in DOMAIN pool |-> pool[CHOOSE i \in DOMAIN pool : rank[i] = k]]

\* lines 450-452, the pool evaluated once
SortedByScore(server_pool) ==
    CHOOSE fastest_pool \in {StableSort(pool) : pool \in {server_pool}} : TRUE

\* a bug: the pool is cut without being sorted
FastestPool_Unsorted(server_pool) ==
    LET pool_size == IF Len(server_pool) >= 50 THEN 4 ELSE 1
    IN  SubSeq(server_pool, 1,
               IF pool_size <= Len(server_pool) THEN pool_size
               ELSE Len(server_pool))

\* lines 449-459: the servers random.choice picks from
FastestPool(server_pool) ==
    LET fastest_pool == SortedByScore(server_pool)
        pool_size    == IF Len(fastest_pool) >= 50 THEN 4 ELSE 1
    IN  SubSeq(fastest_pool, 1,
               IF pool_size <= Len(fastest_pool) THEN pool_size
               ELSE Len(fastest_pool))

\* lines 434-461: the names get_fastest_server may return; random.choice of an
\* empty pool raises IndexError, here the empty set
get_fastest_server(server_pool) ==
    {server.Name : server \in SeqToSet(FastestPool(server_pool))}

\* lines 463-478: value[0] of the servers named servername
extract_server_value(servername, servers) ==
    LET Named(server) == server.Name = servername
        value == SelectSeq(servers, Named)
    IN  IF value = <<>> THEN [err |-> "IndexError", value |-> <<>>]
        ELSE [err |-> "none", value |-> value[1].Servers]

\* a bug: only the first physical server is listed
generate_ip_list_FirstOnly(servername, servers) ==
    LET subservers == extract_server_value(servername, servers)
    IN  IF subservers.err # "none"
        THEN [err |-> "IndexError", ip_list |-> <<>>]
        ELSE [err |-> "none",
              ip_list |-> <<subservers.value[1].EntryIP>>]

\* lines 385-402
generate_ip_list(servername, servers) ==
    LET subservers == extract_server_value(servername, servers)
    IN  IF subservers.err # "none"
        THEN [err |-> "IndexError", ip_list |-> <<>>]
        ELSE [err |-> "none",
              ip_list |-> [i \in DOMAIN subservers.value |->
                              subservers.value[i].EntryIP]]

---------------------------------------------------------------------------
(* Server selection: the five strategies *)

\* the positional arguments a caller passes after session and protocol
StrArg(value)  == [type |-> "str", value |-> value]
ListArg(items) == [type |-> "list", items |-> items]

\* what a strategy did: the exception it raised or "returned", the servername
\* and ip_list handed to generate_vpn_cert, and the files and requests after it
Outcome(outcome, servername, ip_list, files, log, mkdir, read) ==
    [outcome |-> outcome, servername |-> servername, ip_list |-> ip_list,
     files |-> files, log |-> log, mkdir |-> mkdir, read |-> read]

Raised(exception, files, log, mkdir, read) ==
    Outcome(exception, <<>>, <<>>, files, log, mkdir, read)

\* self.cache_servers(session) followed by self.filter_servers(session)
CacheThenFilter(files, log, now_time) ==
    LET cached == cache_servers(files, log, now_time, FALSE, CACHED_SERVERLIST)
        loaded == filter_servers(cached.files, cached.log)
    IN  IF cached.err # "none"
        THEN [err |-> cached.err, servers |-> <<>>, files |-> files,
              log |-> log, mkdir |-> FALSE, read |-> <<>>]
        ELSE [err |-> loaded.err, servers |-> loaded.servers,
              files |-> cached.files, log |-> loaded.log, mkdir |-> TRUE,
              read |-> loaded.read]

\* servername = get_fastest_server(server_pool), then generate_ip_list and
\* generate_vpn_cert: one outcome for every server random.choice may pick
ConnectFastest(server_pool, loaded) ==
    IF server_pool = <<>>
    THEN {Raised("IndexError", loaded.files, loaded.log, loaded.mkdir, loaded.read)}
    ELSE {LET ips == generate_ip_list(servername, loaded.servers)
          IN  IF ips.err # "none"
              THEN Raised("IllegalServername", loaded.files, loaded.log,
                          loaded.mkdir, loaded.read)
              ELSE Outcome("returned", servername, ips.ip_list, loaded.files,
                           loaded.log, loaded.mkdir, loaded.read)
          : servername \in get_fastest_server(server_pool)}

\* lines 20-54
fastest(session, protocol, files, log, now_time) ==
    LET invalid == validate_session_protocol(session, protocol)
        loaded  == CacheThenFilter(files, log, now_time)
        excluded_features == {1, 2}
        Included(server) == server.Features \notin excluded_features
    IN  IF invalid # "none" THEN {Raised(invalid, files, log, FALSE, <<>>)}
        ELSE IF loaded.err # "none"
        THEN {Raised(loaded.err, loaded.files, loaded.log, loaded.mkdir, <<>>)}
        ELSE ConnectFastest(SelectSeq(loaded.servers, Included), loaded)

\* lines 68-91: the exception the argument checks raise, or "none"
CountryArgs(args) ==
    IF args = <<>> THEN "IndexError"
    ELSE IF args[1].type # "list" THEN "TypeError"
    ELSE IF Len(args[1].items) < 2 THEN "IndexError"
    ELSE "none"

\* lines 57-129
country_f(session, protocol, args, files, log, now_time) ==
    LET invalid == validate_session_protocol(session, protocol)
        badargs == CountryArgs(args)
        country_code == Upper(Strip(args[1].items[2]))
        loaded  == CacheThenFilter(files, log, now_time)
        excluded_features == {1, 2}
        Included(server) == /\ server.Features \notin excluded_features
                            /\ server.ExitCountry = country_code
        server_pool == SelectSeq(loaded.servers, Included)
    IN  IF invalid # "none" THEN {Raised(invalid, files, log, FALSE, <<>>)}
        ELSE IF badargs # "none" THEN {Raised(badargs, files, log, FALSE, <<>>)}
        ELSE IF loaded.err # "none"
        THEN {Raised(loaded.err, loaded.files, loaded.log, loaded.mkdir, <<>>)}
        ELSE IF Len(server_pool) = 0
        THEN {Raised("ValueError", loaded.files, loaded.log, loaded.mkdir,
                     loaded.read)}
        ELSE ConnectFastest(server_pool, loaded)

\* lines 142-163: the exception the argument checks raise, or "none";
\* user_input[1] of a list with fewer than two items raises IndexError
DirectArgs(args) ==
    IF args = <<>> THEN "ValueError"
    ELSE IF args[1].type = "list" /\ Len(args[1].items) < 2 THEN "IndexError"
    ELSE "none"

\* lines 131-196
direct(session, protocol, args, files, log, now_time) ==
    LET invalid == validate_session_protocol(session, protocol)
        badargs == DirectArgs(args)
        user_input == IF args[1].type = "list" THEN args[1].items[2]
                      ELSE args[1].value
        servername == Upper(Strip(user_input))
        loaded  == CacheThenFilter(files, log, now_time)
        ips     == generate_ip_list(servername, loaded.servers)
    IN  IF invalid # "none" THEN {Raised(invalid, files, log, FALSE, <<>>)}
        ELSE IF badargs # "none" THEN {Raised(badargs, files, log, FALSE, <<>>)}
        ELSE IF ~is_servername_valid(user_input)
        THEN {Raised("IllegalServername", files, log, FALSE, <<>>)}
        ELSE IF loaded.err # "none"
        THEN {Raised(loaded.err, loaded.files, loaded.log, loaded.mkdir, <<>>)}
        ELSE IF ips.err # "none"
        THEN {Raised("IllegalServername", loaded.files, loaded.log,
                     loaded.mkdir, loaded.read)}
        ELSE IF servername \notin {server.Name : server \in SeqToSet(loaded.servers)}
        THEN {Raised("ValueError", loaded.files, loaded.log, loaded.mkdir,
                     loaded.read)}
        ELSE {Outcome("returned", servername, ips.ip_list, loaded.files,
                      loaded.log, loaded.mkdir, loaded.read)}

\* lines 209-230: the exception the argument checks raise, or "none";
\* args[0][0] of an empty list raises IndexError
FeatureArgs(args) ==
    IF args = <<>> THEN "ValueError"
    ELSE IF args[1].type # "list" THEN "TypeError"
    ELSE IF Len(args[1].items) < 1 THEN "IndexError"
    ELSE "none"

\* lines 233-237
allowed_features ==
    [literal \in {<<"s", "c">>, <<"t", "o", "r">>, <<"p", "2", "p">>, <<"s", "t", "r", "e", "a", "m">>, <<"i", "p", "v", "6">>} |->
        CASE literal = <<"s", "c">>     -> 1
          [] literal = <<"t", "o", "r">>    -> 2
          [] literal = <<"p", "2", "p">>    -> 4
          [] literal = <<"s", "t", "r", "e", "a", "m">> -> 8
          [] literal = <<"i", "p", "v", "6">>   -> 16]

\* a bug: the literal is looked up as typed
LiteralFeature_AsTyped(raw) == raw

\* line 232: args[0][0].strip().lower()
LiteralFeature(raw) == Lower(Strip(raw))

\* lines 198-275
feature_f(session, protocol, args, files, log, now_time) ==
    LET invalid == validate_session_protocol(session, protocol)
        badargs == FeatureArgs(args)
        literal_feature == LiteralFeature(args[1].items[1])
        feature == allowed_features[literal_feature]
        loaded  == CacheThenFilter(files, log, now_time)
        Featured(server) == server.Features = feature
        server_pool == SelectSeq(loaded.servers, Featured)
    IN  IF invalid # "none" THEN {Raised(invalid, files, log, FALSE, <<>>)}
        ELSE IF badargs # "none" THEN {Raised(badargs, files, log, FALSE, <<>>)}
        ELSE IF literal_feature \notin DOMAIN allowed_features
        THEN {Raised("ValueError", files, log, FALSE, <<>>)}
        ELSE IF loaded.err # "none"
        THEN {Raised(loaded.err, loaded.files, loaded.log, loaded.mkdir, <<>>)}
        ELSE IF Len(server_pool) = 0
        THEN {Raised("ServerListEmptyError", loaded.files, loaded.log,
                     loaded.mkdir, loaded.read)}
        ELSE ConnectFastest(server_pool, loaded)

\* lines 277-302: filter_servers without cache_servers; random.choice of an
\* empty list raises IndexError
random_c(session, protocol, files, log, now_time) ==
    LET invalid == validate_session_protocol(session, protocol)
        loaded  == filter_servers(files, log)
    IN  IF invalid # "none" THEN {Raised(invalid, files, log, FALSE, <<>>)}
        ELSE IF loaded.err # "none"
        THEN {Raised(loaded.err, files, loaded.log, FALSE, <<>>)}
        ELSE IF loaded.servers = <<>>
        THEN {Raised("IndexError", files, loaded.log, FALSE, loaded.read)}
        ELSE {LET servername == server.Name
                  ips == generate_ip_list(servername, loaded.servers)
              IN  IF ips.err # "none"
                  THEN Raised("IllegalServername", files, loaded.log, FALSE,
                              loaded.read)
                  ELSE Outcome("returned", servername, ips.ip_list, files,
                               loaded.log, FALSE, loaded.read)
              : server \in SeqToSet(loaded.servers)}

---------------------------------------------------------------------------
(* Server selection: calls of the strategies *)

ServernameInputs == {
    <<"P", "T", "#", "1">>,
    <<"p", "t", "#", "1">>,
    <<"P", "T", "1">>,
    <<"P", "T", "#", "0", "1">>,
    <<" ", "P", "T", "#", "1", " ">>,
    <<"P", "T", "#", "2">>,
    <<"P", "T", "#", "3", "-", "T", "O", "R">>,
    <<"p", "t", "#", "3", "-", "t", "o", "r">>,
    <<"I", "S", "-", "D", "E", "#", "1">>,
    <<"i", "s", "-", "d", "e", "#", "1">>,
    <<"I", "S", "D", "E", "1">>,
    <<"C", "H", "#", "5">>,
    <<"U", "S", "-", "F", "R", "E", "E", "#", "1">>,
    <<"S", "E", "#", "7">>,
    <<"C", "H", "#", "5", "0">>,
    <<"C", "H", "#", "5", "1">>,
    <<"X", "X", "#", "1">>,
    <<"P", "T", "#", "9">>,
    <<"b", "o", "g", "u", "s">>}

CountryInputs == {<<"P", "T">>, <<" ", "p", "t", " ">>, <<"d", "e">>, <<"U", "S">>, <<"S", "E">>, <<"C", "H">>, <<"X", "X">>}

FeatureInputs == {<<"p", "2", "p">>,
                  <<" ", "P", "2", "P", " ">>,
                  <<"T", "O", "R">>,
                  <<"t", "o", "r">>,
                  <<"s", "c">>,
                  <<"s", "t", "r", "e", "a", "m">>,
                  <<"i", "p", "v", "6">>,
                  <<"a", "l", "l">>,
                  <<>>}

Command == <<"c">>

DirectArgInputs ==
    {<<>>, <<ListArg(<<Command>>)>>, <<ListArg(<<Command, <<"P", "T", "#", "1">>>>)>>}
    \cup {<<StrArg(name)>> : name \in ServernameInputs}

CountryArgInputs ==
    {<<>>, <<StrArg(<<"P", "T">>)>>, <<ListArg(<<Command>>)>>}
    \cup {<<ListArg(<<Command, code>>)>> : code \in CountryInputs}

FeatureArgInputs ==
    {<<>>, <<StrArg(<<"p", "2", "p">>)>>, <<ListArg(<<>>)>>}
    \cup {<<ListArg(<<literal>>)>> : literal \in FeatureInputs}

NoSelection ==
    [calls |-> 0, strategy |-> "none", session |-> "none", protocol |-> "none",
     args |-> <<>>, at |-> 0, before |-> AbsentFile, requests |-> <<>>,
     outcome |-> "none", servername |-> <<>>, ip_list |-> <<>>, read |-> <<>>]

\* the number of strategy calls in one behaviour is bounded
CanSelect == selection.calls < MaxSelCalls

\* the strategy ends with outcome result: the files, the requests and the record
\* of the call
Selected(strategy, session, protocol, args, result) ==
    /\ selection' = [calls |-> selection.calls + 1, strategy |-> strategy,
                     session |-> session, protocol |-> protocol, args |-> args,
                     at |-> now, before |-> fs[CACHED_SERVERLIST],
                     requests |-> apiLog, outcome |-> result.outcome,
                     servername |-> result.servername,
                     ip_list |-> result.ip_list, read |-> result.read]
    /\ fs' = result.files
    /\ apiLog' = result.log
    /\ cacheDirExists' = (cacheDirExists \/ result.mkdir)
    /\ UNCHANGED <<now, cacheResult, served, nameCheck>>

Fastest(session, protocol) ==
    /\ CanSelect
    /\ \E result \in fastest(session, protocol, fs, apiLog, now) :
           Selected("fastest", session, protocol, <<>>, result)

CountryF(session, protocol, args) ==
    /\ CanSelect
    /\ \E result \in country_f(session, protocol, args, fs, apiLog, now) :
           Selected("country_f", session, protocol, args, result)

Direct(session, protocol, args) ==
    /\ CanSelect
    /\ \E result \in direct(session, protocol, args, fs, apiLog, now) :
           Selected("direct", session, protocol, args, result)

FeatureF(session, protocol, args) ==
    /\ CanSelect
    /\ \E result \in feature_f(session, protocol, args, fs, apiLog, now) :
           Selected("feature_f", session, protocol, args, result)

RandomC(session, protocol) ==
    /\ CanSelect
    /\ \E result \in random_c(session, protocol, fs, apiLog, now) :
           Selected("random_c", session, protocol, <<>>, result)

---------------------------------------------------------------------------
(* Servername validation: calls of is_servername_valid *)

\* the servernames validated: a code, an optional second code, a number and a
\* suffix, with separators
GrammarInputs ==
    LET CodeInputs   == {<<"P", "T">>, <<"p", "t">>, <<"I", "S">>, <<"1", "a">>, <<"P">>}
        SepInputs    == {<<>>, <<"-">>, <<"#">>, <<" ">>}
        SecondInputs == {<<"D", "E">>, <<"d", "e">>, <<"F", "R", "E", "E">>, <<"f", "r", "e", "e">>}
        NumberInputs == {<<"1">>, <<"0", "1">>, <<"0", "0", "1">>, <<"0", "0", "0">>, <<"1", "2", "0">>, <<"1", "2", "3", "4">>, <<>>}
        TorInputs    == {<<>>, <<"-", "T", "O", "R">>, <<"T", "O", "R">>, <<"-", "t", "o", "r">>, <<"\n">>}
    IN  {code \o sep \o number \o tor :
            code \in CodeInputs, sep \in SepInputs, number \in NumberInputs,
            tor \in TorInputs}
        \cup
        {code \o sep \o second \o sep2 \o number \o tor :
            code \in CodeInputs, sep \in SepInputs, second \in SecondInputs,
            sep2 \in SepInputs, number \in NumberInputs, tor \in TorInputs}

NoNameCheck == [called |-> FALSE, servername |-> <<>>, valid |-> FALSE,
                return_servername |-> <<>>]

\* the caller's servername is validated
IsServernameValid ==
    /\ ~nameCheck.called
    /\ nameCheck' = [called |-> TRUE, servername |-> nameCheck.servername,
                     valid |-> is_servername_valid(nameCheck.servername),
                     return_servername |->
                         return_servername(nameCheck.servername)]
    /\ UNCHANGED <<now, fs, cacheDirExists, apiLog, cacheResult, served,
                   selection>>

---------------------------------------------------------------------------
(* Specifications *)

NoFiles == [p \in FsPaths |->
              IF p = DirPath THEN [kind |-> "dir", mtime |-> 0, data |-> 0]
              ELSE AbsentFile]

CacheFixed ==
    /\ now = 0
    /\ fs = NoFiles
    /\ cacheDirExists = FALSE
    /\ apiLog = <<>>
    /\ cacheResult = NoCacheCall
    /\ served = [logicals |-> "mixed", MaxTier |-> 0]
    /\ selection = NoSelection
    /\ nameCheck = NoNameCheck

\* the cache file is absent, or was written at minute 0 by an earlier run
CacheInit ==
    /\ now = 0
    /\ cacheDirExists \in BOOLEAN
    /\ fs \in {NoFiles} \cup
              (IF cacheDirExists
               THEN {[NoFiles EXCEPT ![CACHED_SERVERLIST] =
                        [kind |-> "file", mtime |-> 0, data |-> 0]]}
               ELSE {})
    /\ apiLog = <<>>
    /\ cacheResult = NoCacheCall
    /\ served = [logicals |-> "mixed", MaxTier |-> 0]
    /\ selection = NoSelection
    /\ nameCheck = NoNameCheck

ConnFixed ==
    /\ connections = ForeignConnections
    /\ active = <<>>
    /\ nextUuid = FirstUuid
    /\ pending = {}
    /\ stack = <<>>
    /\ addCtx = NoCtx
    /\ removeConn = 0
    /\ history = <<>>
    /\ lastCallback = NoCallback
    /\ cleanupCalls = <<>>
    /\ requestLog = <<>>
    /\ envCI = FALSE

\* no managed record yet; the foreign VPN record of the host is active
ConnInit ==
    /\ connections = ForeignConnections
    /\ active = <<ForeignConnections[Len(ForeignConnections)].uuid>>
    /\ nextUuid = FirstUuid
    /\ pending = {}
    /\ stack = <<>>
    /\ addCtx = NoCtx
    /\ removeConn = 0
    /\ history = <<>>
    /\ lastCallback = NoCallback
    /\ cleanupCalls = <<>>
    /\ requestLog = <<>>
    /\ envCI \in BOOLEAN

Init == ConnInit /\ CacheFixed

Next ==
    \/ /\ \E filename \in FilenameInputs, username \in UsernameInputs,
             password \in PasswordInputs, delete_cached_cert \in CleanupKinds :
             AddConnection(filename, username, password, delete_cached_cert)
       /\ UNCHANGED cacheVars
    \/ StartConnection /\ UNCHANGED cacheVars
    \/ StopConnection /\ UNCHANGED cacheVars
    \/ RemoveConnection /\ UNCHANGED cacheVars
    \/ (\E ok \in BOOLEAN : DynamicCallback(ok)) /\ UNCHANGED cacheVars

\* the connection lifecycle
Spec == Init /\ [][Next]_vars

InitCache == ConnFixed /\ CacheInit

NextCache ==
    \/ /\ \E force \in BOOLEAN, cached_serverlist \in PathInputs :
             CacheServers(force, cached_serverlist)
       /\ UNCHANGED connVars
    \/ Tick /\ UNCHANGED connVars

\* the catalogue cache
SpecCache == InitCache /\ [][NextCache]_vars

\* a strategy is called while there is no cache file, or at the minute the
\* cache file was written, or REFRESH_INTERVAL minutes or more after it
CallTimes == {0, REFRESH_INTERVAL, REFRESH_INTERVAL + 1}

InitSelect ==
    /\ ConnFixed
    /\ now \in CallTimes
    /\ \/ /\ cacheDirExists = FALSE
          /\ fs = NoFiles
          /\ now = 0
       \/ /\ cacheDirExists = TRUE
          /\ fs = [NoFiles EXCEPT ![CACHED_SERVERLIST] =
                      [kind |-> "file", mtime |-> 0, data |-> 0]]
    /\ apiLog = <<>>
    /\ cacheResult = NoCacheCall
    /\ served \in [logicals : CatalogNames, MaxTier : Tiers]
    /\ selection = NoSelection
    /\ nameCheck = NoNameCheck

NextSelect ==
    \/ /\ \E caller \in CallerInputs : Fastest(caller[1], caller[2])
       /\ UNCHANGED connVars
    \/ /\ \E call \in CallInputs(CountryArgInputs) :
             CountryF(call[1][1], call[1][2], call[2])
       /\ UNCHANGED connVars
    \/ /\ \E call \in CallInputs(DirectArgInputs) :
             Direct(call[1][1], call[1][2], call[2])
       /\ UNCHANGED connVars
    \/ /\ \E call \in CallInputs(FeatureArgInputs) :
             FeatureF(call[1][1], call[1][2], call[2])
       /\ UNCHANGED connVars
    \/ /\ \E caller \in CallerInputs : RandomC(caller[1], caller[2])
       /\ UNCHANGED connVars

\* server selection
SpecSelect == InitSelect /\ [][NextSelect]_vars

InitNames ==
    /\ ConnFixed
    /\ now = 0
    /\ fs = NoFiles
    /\ cacheDirExists = FALSE
    /\ apiLog = <<>>
    /\ cacheResult = NoCacheCall
    /\ served = [logicals |-> "mixed", MaxTier |-> 0]
    /\ selection = NoSelection
    /\ \E servername \in GrammarInputs :
           nameCheck = [NoNameCheck EXCEPT !.servername = servername]

NextNames == IsServernameValid /\ UNCHANGED connVars

\* servername validation
SpecNames == InitNames /\ [][NextNames]_vars

---------------------------------------------------------------------------
(* Properties of the connection lifecycle *)

Last(h) == h[Len(h)]
IsReturn(e, op, outcome) == e.op = op /\ e.outcome = outcome

\* C1: at every moment the records known to the service hold at most one
\* record whose VPN data item 'dev' is the fixed virtual-device name,
\* whatever calls were made and whether they succeeded or failed.
C1_AtMostOneManagedRecord == Cardinality(ManagedAll) <= 1

\* an add completed while an earlier managed record was registered and active
C1_Witness ==
    /\ Len(history) = 3
    /\ IsReturn(history[1], "add", "None")
    /\ IsReturn(history[2], "start", "None")
    /\ IsReturn(history[3], "add", "None")
    /\ Cardinality(ManagedAll) = 1

\* C2: when the caller's last two calls are successful adds with different
\* profiles, exactly one managed record exists and it is built from the
\* second profile.
C2_SecondAddReplacesFirst ==
    (/\ Len(history) >= 2
     /\ stack = <<>>
     /\ IsReturn(history[Len(history) - 1], "add", "None")
     /\ IsReturn(Last(history), "add", "None")
     /\ history[Len(history) - 1].file # Last(history).file)
    => /\ Cardinality(ManagedAll) = 1
       /\ \A c \in ManagedAll : c.file = Last(history).file
       /\ \A c \in SeqToSet(connections) :
              c.file = history[Len(history) - 1].file => ~IsManaged(c)

\* two successful adds, of the profile "tun" and then of the profile "tap"
C2_Witness ==
    /\ Len(history) = 2
    /\ stack = <<>>
    /\ history[1] = Returned("add", "None", "tun")
    /\ history[2] = Returned("add", "None", "tap")
    /\ \E c \in ManagedAll : c.file = "tap" /\ c.devtype = "tap"

\* C3: once the completion callback of a request has fired, with success or
\* with failure, the loop of the operation is quit and the caller resumes:
\* the caller is never left blocked in a loop with no request outstanding.
C3_CallbackAlwaysQuitsLoop ==
    /\ lastCallback.callback_type # "none" => lastCallback.quit
    /\ pending = {} => stack = <<>>

\* C4: when the service rejects a request, the caller of the operation
\* receives the operation-specific error (AddConnectionFinishError,
\* StartConnectionFinishError, StopConnectionFinishError,
\* RemoveConnectionFinishError) that the callback selected for the kind of
\* the request.
C4_CallerReceivesFinishError ==
    lastCallback.raised # "none" =>
        /\ lastCallback.finish_function = FinishOf(lastCallback.callback_type)
        /\ lastCallback.raised = lastCallback.exception
        /\ stack = <<>>
        /\ history # <<>>
        /\ Last(history).outcome = lastCallback.raised

\* the callback always selects the finish function and the error kind of
\* the operation that issued the request (the part of C4 that the code keeps)
CallbackDispatchMatches ==
    lastCallback.callback_type # "none" =>
        /\ lastCallback.finish_function = FinishOf(lastCallback.callback_type)
        /\ lastCallback.exception =
              (CASE lastCallback.callback_type = "add" -> "AddConnectionFinishError"
                 [] lastCallback.callback_type = "start" -> "StartConnectionFinishError"
                 [] lastCallback.callback_type = "stop" -> "StopConnectionFinishError"
                 [] lastCallback.callback_type = "remove" -> "RemoveConnectionFinishError")
        /\ lastCallback.raised \in {"none", lastCallback.exception}

HasRequest(out, op) == \E req \in out : req.async_op = op

\* C5: start() with no managed record among all records fails with
\* ConnectionNotFound, issues no request and changes no record; with a
\* managed record it asks the service to activate that record, and when the
\* service accepts, the managed record is active afterwards.
C5_Start ==
    [][ /\ (StartConnection /\ ManagedAll = {}) =>
              /\ history' = Append(history,
                                   Returned("start", "ConnectionNotFound", "none"))
              /\ UNCHANGED <<pending, requestLog, connections, active>>
        /\ (StartConnection /\ ManagedAll # {}) =>
              /\ UNCHANGED <<history, connections, active>>
              /\ \E req \in pending' :
                    /\ req.async_op = "start"
                    /\ \E c \in ManagedAll : c.uuid = req.target
        /\ (HasRequest(pending, "start") /\ DynamicCallback(TRUE)) =>
              /\ ManagedAll' = ManagedAll
              /\ ManagedAll' # {}
              /\ \A c \in ManagedAll' : c.uuid \in ManagedActive'
              /\ Last(history') = Returned("start", "None", "none")
      ]_vars

\* start() failed with ConnectionNotFound, and a later start() of an added
\* record was accepted
C5_Witness ==
    /\ Len(history) = 3
    /\ history[1] = Returned("start", "ConnectionNotFound", "none")
    /\ IsReturn(history[2], "add", "None")
    /\ history[3] = Returned("start", "None", "none")
    /\ ManagedActive # {}

\* C6: stop() with no managed record among the active records returns False
\* without raising, issues no request and leaves the records and the active
\* records unchanged; with an active managed record it asks the service to
\* deactivate it, and when the service accepts, the record is inactive and
\* still registered.
C6_Stop ==
    [][ /\ (StopConnection /\ ManagedActive = {}) =>
              /\ history' = Append(history, Returned("stop", "False", "none"))
              /\ UNCHANGED <<pending, requestLog, connections, active>>
        /\ (StopConnection /\ ManagedActive # {}) =>
              /\ UNCHANGED <<history, connections, active>>
              /\ \E req \in pending' :
                    req.async_op = "stop" /\ req.target \in ManagedActive
        /\ (stack = <<"stop">> /\ DynamicCallback(TRUE)) =>
              /\ ManagedActive' = {}
              /\ ManagedAll' = ManagedAll
              /\ ManagedAll' # {}
              /\ connections' = connections
              /\ Last(history') = Returned("stop", "None", "none")
      ]_vars

\* a record was added, started and stopped: it is registered and inactive
C6_Witness ==
    /\ Len(history) = 3
    /\ IsReturn(history[1], "add", "None")
    /\ history[2] = Returned("start", "None", "none")
    /\ history[3] = Returned("stop", "None", "none")
    /\ ManagedAll # {}
    /\ ManagedActive = {}

\* C7: remove() with no managed record fails with ConnectionNotFound and
\* issues no request; with a managed record it stops the record first (a
\* delete request is outstanding only while the record is inactive, the
\* deactivation having completed) and then deletes it, so that after a
\* successful remove() no managed record is registered or active.
C7_Remove ==
    /\ [](\A req \in pending : req.async_op = "remove" =>
              /\ req.target \notin SeqToSet(active)
              /\ \E c \in ManagedAll : c.uuid = req.target)
    /\ []((history # <<>> /\ stack = <<>>
           /\ Last(history) = Returned("remove", "None", "none"))
          => (ManagedAll = {} /\ ManagedActive = {}))
    /\ [][ /\ (RemoveConnection /\ ManagedAll = {}) =>
                 /\ history' = Append(history,
                                      Returned("remove", "ConnectionNotFound", "none"))
                 /\ UNCHANGED <<pending, requestLog, connections, active>>
           /\ (RemoveConnection /\ ManagedActive # {}) =>
                 /\ pending' = {Request("stop", "Client",
                                        (CHOOSE u \in ManagedActive : TRUE),
                                        NoConn, "none")}
                 /\ UNCHANGED <<history, connections, active>>
           /\ (RemoveConnection /\ ManagedAll # {} /\ ManagedActive = {}) =>
                 /\ HasRequest(pending', "remove")
                 /\ UNCHANGED <<history, connections, active>>
           /\ (stack = <<"remove", "stop">> /\ DynamicCallback(TRUE)) =>
                 /\ HasRequest(pending', "remove")
                 /\ ManagedActive' = {}
         ]_vars

\* an active managed record was removed: deactivated, then deleted
C7_Witness ==
    /\ Len(history) = 3
    /\ IsReturn(history[1], "add", "None")
    /\ history[2] = Returned("start", "None", "none")
    /\ history[3] = Returned("remove", "None", "none")
    /\ requestLog = << <<"issue", "add">>, <<"done", "add">>,
                       <<"issue", "start">>, <<"done", "start">>,
                       <<"issue", "stop">>, <<"done", "stop">>,
                       <<"issue", "remove">>, <<"done", "remove">> >>
    /\ ManagedAll = {}

NotSentinel(x) == x # SENTINEL

RECURSIVE SuccessfulAddFiles(_)
SuccessfulAddFiles(h) ==
    IF h = <<>> THEN <<>>
    ELSE IF IsReturn(h[1], "add", "None")
         THEN <<h[1].file>> \o SuccessfulAddFiles(Tail(h))
         ELSE SuccessfulAddFiles(Tail(h))

\* C8: delete_cached_cert is invoked with the profile path exactly once per
\* add() whose registration succeeded when the CI flag is unset, and never
\* when the flag is set, when the registration fails, or when a start, stop
\* or remove request completes: its calls with something other than the
\* probe's sentinel are exactly the profiles of the successful adds.
C8_CleanupOncePerSuccessfulAdd ==
    /\ [](SelectSeq(cleanupCalls, NotSentinel) =
             (IF envCI THEN <<>> ELSE SuccessfulAddFiles(history)))
    /\ [][ (cleanupCalls' # cleanupCalls /\ Last(cleanupCalls') # SENTINEL) =>
              /\ ~envCI
              /\ cleanupCalls' = Append(cleanupCalls, Last(cleanupCalls'))
              /\ HasRequest(pending, "add")
              /\ \E c \in ManagedAll' \ ManagedAll :
                     c.file = Last(cleanupCalls')
          ]_vars

\* without the CI flag: an add succeeded, then a start completed, and the
\* cleanup was invoked once with the profile
C8_Witness ==
    /\ ~envCI
    /\ Len(history) = 2
    /\ history[1] = Returned("add", "None", "tun")
    /\ history[2] = Returned("start", "None", "none")
    /\ cleanupCalls = <<SENTINEL, "tun">>

\* with the CI flag set an add succeeded and the cleanup was only probed
C8_WitnessCI ==
    /\ envCI
    /\ history = <<Returned("add", "None", "tun")>>
    /\ cleanupCalls = <<SENTINEL>>

\* C9: at most one request is outstanding at every moment, and a request is
\* issued only when every request issued before it has completed: the
\* delete of remove() after the deactivation, the registration of add()
\* after the deactivation and the deletion of the pre-add removal.
C9_OneOutstandingRequest ==
    /\ Cardinality(pending) <= 1
    /\ \A i \in DOMAIN requestLog :
          requestLog[i][1] = (IF i % 2 = 1 THEN "issue" ELSE "done")
    /\ \A i \in DOMAIN requestLog :
          i % 2 = 0 => requestLog[i][2] = requestLog[i - 1][2]
    /\ (stack = <<"add">> /\ pending # {}) => ManagedAll = {}

\* add() of a second profile while the first record is active: the
\* registration is outstanding after the deactivation and the deletion
C9_Witness ==
    /\ stack = <<"add">>
    /\ HasRequest(pending, "add")
    /\ Len(requestLog) > 4
    /\ SubSeq(requestLog, Len(requestLog) - 4, Len(requestLog)) =
          << <<"issue", "stop">>, <<"done", "stop">>,
             <<"issue", "remove">>, <<"done", "remove">>,
             <<"issue", "add">> >>

---------------------------------------------------------------------------
(* Properties of the catalogue cache *)

CallPassedPathChecks ==
    cacheResult.called /\ cacheResult.outcome \in {"fetched", "kept"}

\* minutes between the last write of the file and the call
AgeAtCall == cacheResult.at - cacheResult.before.mtime

\* C10: a refresh whose path passes the path checks requests /vpn/logicals
\* once and rewrites the cache file if and only if the file is absent, or
\* was last modified more than 15 minutes before, or the refresh is forced;
\* otherwise (file present, at most 15 minutes old, not forced) it makes no
\* request and leaves the file as it was.
C10_RefreshPolicy ==
    CallPassedPathChecks =>
        LET absent == cacheResult.before.kind = "absent"
            due    == absent \/ AgeAtCall > 15 \/ cacheResult.force
        IN  /\ due =>
                /\ apiLog = Append(SubSeq(apiLog, 1, cacheResult.requests),
                                   "/vpn/logicals")
                /\ fs[cacheResult.path].kind = "file"
                /\ fs[cacheResult.path].mtime = cacheResult.at
                /\ fs[cacheResult.path].data = Len(apiLog)
            /\ ~due =>
                /\ Len(apiLog) = cacheResult.requests
                /\ fs[cacheResult.path] = cacheResult.before
                /\ fs[cacheResult.path].kind = "file"

\* a non-forced refresh of a cache written 16 minutes before made a request
C10_Witness ==
    /\ CallPassedPathChecks
    /\ ~cacheResult.force
    /\ cacheResult.before.kind = "file"
    /\ AgeAtCall = 16
    /\ Len(apiLog) = cacheResult.requests + 1
    /\ fs[cacheResult.path].mtime = cacheResult.at

\* a non-forced refresh of a cache written exactly 15 minutes before kept it
C10_WitnessKept ==
    /\ CallPassedPathChecks
    /\ ~cacheResult.force
    /\ AgeAtCall = 15
    /\ cacheResult.outcome = "kept"
    /\ apiLog = <<>>

---------------------------------------------------------------------------
\* C11: cache_servers with an empty path or a path that is a directory raises
\* (FileNotFoundError, IsADirectoryError), and that call requests nothing from
\* the API and leaves every file as it was, whatever force is and however old
\* the cache is.
C11_BadPathFailsWithoutFetch ==
    [][\A force \in BOOLEAN, path \in PathInputs :
          ((path = "" \/ isdir(fs, path)) /\ CacheServers(force, path))
          => /\ cacheResult'.outcome =
                   (IF path = "" THEN "FileNotFoundError" ELSE "IsADirectoryError")
             /\ UNCHANGED <<fs, apiLog, cacheDirExists>>]_vars

\* a forced call on a directory, later than REFRESH_INTERVAL, has failed
C11_Witness ==
    /\ cacheResult.called
    /\ cacheResult.path = DirPath
    /\ cacheResult.force
    /\ cacheResult.at > REFRESH_INTERVAL
    /\ cacheResult.outcome = "IsADirectoryError"
    /\ apiLog = <<>>

---------------------------------------------------------------------------
(* Server selection: what the last call of a strategy did *)

Strategies == {"fastest", "country_f", "direct", "feature_f", "random_c"}

\* the last call came from a well-formed caller
WellFormedCall ==
    selection.calls > 0 /\ <<selection.session, selection.protocol>> = ValidCaller

SelectionReturned == selection.calls > 0 /\ selection.outcome = "returned"

\* the catalogue the last call loaded, <<>> when it loaded none
CatalogRead ==
    IF selection.read = <<>> THEN <<>> ELSE CatalogOf(selection.read[1])

Eligible(server) == server.Tier <= served.MaxTier /\ server.Status = 1

\* the servers of the loaded catalogue the session may use
TierFiltered == SelectSeq(CatalogRead, Eligible)

NamesOf(servers) == {server.Name : server \in SeqToSet(servers)}

\* the servers of the loaded catalogue that carry the returned name
ChosenServers ==
    {server \in SeqToSet(CatalogRead) : server.Name = selection.servername}

\* the cache file was missing or older than REFRESH_INTERVAL when the call began
CacheWasMissing == selection.before.kind # "file"
CacheWasStale ==
    /\ selection.before.kind = "file"
    /\ selection.at - selection.before.mtime > REFRESH_INTERVAL

\* the call got as far as opening the cache file
LoadAttempted ==
    selection.read # <<>> \/ selection.outcome = "FileNotFoundError"

\* the call began with a request of the catalogue and loaded what that wrote
FetchedBeforeRead ==
    /\ Len(apiLog) > Len(selection.requests)
    /\ apiLog[Len(selection.requests) + 1] = "/vpn/logicals"
    /\ fs[CACHED_SERVERLIST].kind = "file"
    /\ fs[CACHED_SERVERLIST].mtime = selection.at
    /\ selection.read = <<fs[CACHED_SERVERLIST].data>>

\* C12: a call of any of the five strategies that gets as far as loading the
\* catalogue while the cache file is missing or stale first requests the
\* catalogue and loads the file that request wrote; it never fails on a missing
\* file and never loads the stale one.
C12_EveryStrategyRefreshesFirst ==
    (WellFormedCall /\ LoadAttempted /\ (CacheWasMissing \/ CacheWasStale))
        => FetchedBeforeRead

\* the same for the four strategies that call cache_servers
RefreshingStrategiesRefreshFirst ==
    (/\ WellFormedCall
     /\ selection.strategy # "random_c"
     /\ LoadAttempted
     /\ (CacheWasMissing \/ CacheWasStale))
        => FetchedBeforeRead

\* random_c loaded the stale file without a request of the catalogue
RandomReadStaleCache ==
    /\ WellFormedCall
    /\ selection.strategy = "random_c"
    /\ CacheWasStale
    /\ selection.outcome = "returned"
    /\ selection.read = <<selection.before.data>>
    /\ "/vpn/logicals" \notin SeqToSet(apiLog)

\* the server direct() was asked for, as it looks it up
DirectInput ==
    IF selection.args[1].type = "list" THEN selection.args[1].items[2]
    ELSE selection.args[1].value

DirectCall ==
    /\ WellFormedCall
    /\ selection.strategy = "direct"
    /\ DirectArgs(selection.args) = "none"

\* C13: a server a strategy returns is an entry of the loaded catalogue with
\* Tier <= the session's tier and Status 1; direct() asked for a server of the
\* catalogue that is above the tier or has Status 0 does not return.
C13_ReturnedServerIsEligible ==
    /\ SelectionReturned =>
          /\ ChosenServers # {}
          /\ \A server \in ChosenServers : Eligible(server)
          /\ selection.servername \in NamesOf(TierFiltered)
    /\ (/\ DirectCall
        /\ \E server \in SeqToSet(CatalogRead) :
              /\ server.Name = Upper(Strip(DirectInput))
              /\ ~Eligible(server))
          => selection.outcome # "returned"

\* direct() refused a server under maintenance, and one above the tier
C13_Witness ==
    /\ DirectCall
    /\ served = [logicals |-> "mixed", MaxTier |-> 1]
    /\ selection.args = <<StrArg(<<"I", "S", "-", "D", "E", "#", "1">>)>>
    /\ selection.read # <<>>
    /\ selection.outcome = "IllegalServername"

\* random_c picked from a catalogue that has servers the session may not use
C13_WitnessRandom ==
    /\ WellFormedCall
    /\ selection.strategy = "random_c"
    /\ selection.outcome = "returned"
    /\ Len(TierFiltered) + 2 <= Len(CatalogRead)
    /\ selection.servername = <<"P", "T", "#", "9">>

HasFlag(features, flag) == (features \div flag) % 2 = 1

\* C14: a server fastest() returns has neither the SecureCore flag (1) nor the
\* Tor flag (2) in its Features, whatever other flags it has.
C14_FastestExcludesSecureCoreAndTor ==
    (SelectionReturned /\ selection.strategy = "fastest")
        => \A server \in ChosenServers :
              ~HasFlag(server.Features, 1) /\ ~HasFlag(server.Features, 2)

\* a server whose Features are exactly SecureCore or exactly Tor is not returned
FastestExcludesExactFeatures ==
    (SelectionReturned /\ selection.strategy = "fastest")
        => \A server \in ChosenServers : server.Features \notin {1, 2}

\* the pool the top-K selector was given by the last call
CountryInput == Upper(Strip(selection.args[1].items[2]))
FeatureInput == selection.args[1].items[1]

CountryCall ==
    /\ WellFormedCall
    /\ selection.strategy = "country_f"
    /\ CountryArgs(selection.args) = "none"

FeatureCall ==
    /\ WellFormedCall
    /\ selection.strategy = "feature_f"
    /\ FeatureArgs(selection.args) = "none"

FastestCall == WellFormedCall /\ selection.strategy = "fastest"

SelectorPool ==
    LET NotExcluded(server) == server.Features \notin {1, 2}
        InCountry(server)   == /\ server.Features \notin {1, 2}
                               /\ server.ExitCountry = CountryInput
        Featured(server)    ==
            /\ Lower(Strip(FeatureInput)) \in DOMAIN allowed_features
            /\ server.Features = allowed_features[Lower(Strip(FeatureInput))]
    IN  IF FastestCall THEN SelectSeq(TierFiltered, NotExcluded)
        ELSE IF CountryCall THEN SelectSeq(TierFiltered, InCountry)
        ELSE IF FeatureCall THEN SelectSeq(TierFiltered, Featured)
        ELSE <<>>

\* the number of servers of the pool with a lower Score
LowerScores(server, pool) ==
    Cardinality({i \in DOMAIN pool : pool[i].Score < server.Score})

\* C15: when fastest, country_f or feature_f hand a non-empty pool to the
\* top-K selector, the call returns a server of the pool; fewer than 4 servers
\* of a pool of 50 or more have a lower Score than the returned one, and none
\* has a lower Score in a pool of fewer than 50.
C15_TopKSelector ==
    ((FastestCall \/ CountryCall \/ FeatureCall) /\ SelectorPool # <<>>)
        => /\ selection.outcome = "returned"
           /\ \E server \in SeqToSet(SelectorPool) :
                 /\ server.Name = selection.servername
                 /\ LowerScores(server, SelectorPool)
                       < (IF Len(SelectorPool) >= 50 THEN 4 ELSE 1)

\* from a pool of 50 or more, a server that is not the fastest was returned
C15_Witness ==
    /\ FastestCall
    /\ selection.outcome = "returned"
    /\ Len(SelectorPool) >= 50
    /\ \E server \in SeqToSet(SelectorPool) :
          /\ server.Name = selection.servername
          /\ LowerScores(server, SelectorPool) = 3

\* from a pool of 49, the fastest server was returned
C15_WitnessSmall ==
    /\ FastestCall
    /\ selection.outcome = "returned"
    /\ Len(SelectorPool) = 49
    /\ \E server \in SeqToSet(SelectorPool) :
          /\ server.Name = selection.servername
          /\ LowerScores(server, SelectorPool) = 0

\* the canonical name of a servername of the grammar
Canonical(servername) == Upper(return_servername(servername))

\* C16: direct(servername) that gets as far as the catalogue raises
\* IllegalServername exactly when the servername is outside the grammar or its
\* canonical name is no server of the tier-filtered catalogue; otherwise it
\* returns the server of that canonical name and its IP list.
C16_DirectAcceptsEveryValidForm ==
    (DirectCall /\ selection.args[1].type = "str"
        /\ selection.outcome \in {"returned", "IllegalServername"})
        => IF \/ ~is_servername_valid(DirectInput)
              \/ /\ selection.read # <<>>
                 /\ Canonical(DirectInput) \notin NamesOf(TierFiltered)
           THEN selection.outcome = "IllegalServername"
           ELSE /\ selection.outcome = "returned"
                /\ selection.servername = Canonical(DirectInput)

\* a servername outside the grammar is refused before the catalogue is loaded,
\* and direct returns exactly the server named by the trimmed, upper-cased
\* input
DirectLooksUpUpperCasedInput ==
    DirectCall =>
        /\ ~is_servername_valid(DirectInput)
              => (selection.outcome = "IllegalServername" /\ selection.read = <<>>)
        /\ selection.outcome = "returned"
              => selection.servername = Upper(Strip(DirectInput))

KnownLiterals == DOMAIN allowed_features

NothingFetchedOrRead ==
    /\ apiLog = selection.requests
    /\ fs[CACHED_SERVERLIST] = selection.before
    /\ selection.read = <<>>

\* C17 as stated: feature_f raises ValueError for every literal outside
\* {sc, tor, p2p, stream, ipv6}, before any refresh or load.
C17_UnknownLiteralAsTyped ==
    (FeatureCall /\ FeatureInput \notin KnownLiterals)
        => (selection.outcome = "ValueError" /\ NothingFetchedOrRead)

\* C17: feature_f raises ValueError, before any refresh or load, for every
\* literal whose trimmed, lower-cased form is outside {sc, tor, p2p, stream,
\* ipv6}; for any other literal it raises ServerListEmptyError when no
\* tier-filtered server has Features equal to the literal's bitmask, and
\* otherwise returns a server whose Features equal that bitmask.
C17_FeatureLiteral ==
    FeatureCall =>
        IF Lower(Strip(FeatureInput)) \notin KnownLiterals
        THEN selection.outcome = "ValueError" /\ NothingFetchedOrRead
        ELSE /\ selection.outcome # "ValueError"
             /\ selection.read # <<>> =>
                  IF SelectorPool = <<>>
                  THEN selection.outcome = "ServerListEmptyError"
                  ELSE /\ selection.outcome = "returned"
                       /\ ChosenServers # {}
                       /\ \A server \in ChosenServers :
                             server.Features =
                                 allowed_features[Lower(Strip(FeatureInput))]

\* a literal with blanks and capitals returned a P2P server
C17_Witness ==
    /\ FeatureCall
    /\ FeatureInput = <<" ", "P", "2", "P", " ">>
    /\ selection.outcome = "returned"
    /\ \A server \in ChosenServers : server.Features = 4
    /\ ChosenServers # {}

\* an unknown literal was refused while the cache file was missing
C17_WitnessUnknown ==
    /\ FeatureCall
    /\ FeatureInput = <<"a", "l", "l">>
    /\ CacheWasMissing
    /\ selection.outcome = "ValueError"
    /\ NothingFetchedOrRead

\* the tier-filtered servers with neither the SecureCore nor the Tor flag
Unflagged(server) ==
    ~HasFlag(server.Features, 1) /\ ~HasFlag(server.Features, 2)

\* C18: country_f that gets as far as the catalogue raises ValueError exactly
\* when no tier-filtered server without the SecureCore and Tor flags has the
\* trimmed, upper-cased country code as ExitCountry, and otherwise returns such
\* a server.
C18_FastestInCountry ==
    (CountryCall /\ selection.read # <<>>)
        => LET Wanted(server) == /\ Unflagged(server)
                                 /\ server.ExitCountry = CountryInput
           IN  IF SelectSeq(TierFiltered, Wanted) = <<>>
               THEN selection.outcome = "ValueError"
               ELSE /\ selection.outcome = "returned"
                    /\ ChosenServers # {}
                    /\ \A server \in ChosenServers : Wanted(server)

\* the same with the servers whose Features are exactly SecureCore or Tor
CountryExcludesExactFeatures ==
    (CountryCall /\ selection.read # <<>>)
        => IF SelectorPool = <<>>
           THEN selection.outcome = "ValueError"
           ELSE /\ selection.outcome = "returned"
                /\ ChosenServers # {}
                /\ \A server \in ChosenServers :
                      /\ server.Features \notin {1, 2}
                      /\ server.ExitCountry = CountryInput

\* C19: the IP list a strategy returns is the EntryIP of every physical server
\* of the returned logical server, in the order of the catalogue, and the name
\* is a server of the tier-filtered catalogue; direct() for a name that no
\* tier-filtered server has raises IllegalServername.
C19_IpListOfChosenServer ==
    /\ SelectionReturned =>
          /\ selection.servername \in NamesOf(TierFiltered)
          /\ \A server \in ChosenServers :
                selection.ip_list =
                    [i \in DOMAIN server.Servers |-> server.Servers[i].EntryIP]
    /\ (/\ DirectCall
        /\ selection.read # <<>>
        /\ Upper(Strip(DirectInput)) \notin NamesOf(TierFiltered))
          => selection.outcome = "IllegalServername"

\* a server with two physical servers was returned with both addresses
C19_Witness ==
    /\ SelectionReturned
    /\ selection.servername = <<"P", "T", "#", "1">>
    /\ selection.read = <<1>>
    /\ Len(selection.ip_list) = 2
    /\ selection.ip_list[1] # selection.ip_list[2]

\* direct() for a name that is in no catalogue raised IllegalServername
C19_WitnessUnknown ==
    /\ DirectCall
    /\ selection.args = <<StrArg(<<"X", "X", "#", "1">>)>>
    /\ selection.read # <<>>
    /\ selection.outcome = "IllegalServername"

---------------------------------------------------------------------------
(* Servername validation *)

\* C20: a servername whose upper-cased form is in the grammar is reported
\* valid and normalized to the canonical name of the upper-cased form, in
\* upper case and without leading zeros.
C20_NormalizationIgnoresCase ==
    (nameCheck.called /\ is_servername_valid(Upper(nameCheck.servername)))
        => /\ nameCheck.valid
           /\ nameCheck.return_servername =
                 return_servername(Upper(nameCheck.servername))

\* pt1 is reported valid, with the name pt#1
LowerCaseKeepsCase ==
    /\ nameCheck.called
    /\ nameCheck.servername = <<"p", "t", "1">>
    /\ nameCheck.valid
    /\ nameCheck.return_servername = <<"p", "t", "#", "1">>

\* a servername in upper case is normalized as the grammar says
UpperCaseNormalized ==
    /\ (nameCheck.called /\ nameCheck.servername = <<"P", "T", "#", "0", "1", "-", "T", "O", "R">>)
          => nameCheck.return_servername = <<"P", "T", "#", "1", "-", "T", "O", "R">>
    /\ (nameCheck.called /\ nameCheck.servername = <<"I", "S", "-", "D", "E", "0", "1">>)
          => nameCheck.return_servername = <<"I", "S", "-", "D", "E", "#", "1">>

\* C21: the name built for a servername the validator accepts is itself
\* accepted, and the name built for that name is the same name.
C21_NormalizationIdempotent ==
    (nameCheck.called /\ nameCheck.valid)
        => /\ is_servername_valid(nameCheck.return_servername)
           /\ return_servername(nameCheck.return_servername)
                 = nameCheck.return_servername

\* the digits of the servername's number are all zeros
OnlyZeros ==
    LET short == re_short(nameCheck.servername)
        long  == re_long(nameCheck.servername)
    IN  IF short.matched THEN LStripZeros(short.number) = <<>>
        ELSE long.matched /\ LStripZeros(long.number) = <<>>

\* the same for the servernames whose number is not only zeros
IdempotentUnlessOnlyZeros ==
    (nameCheck.called /\ nameCheck.valid /\ ~OnlyZeros)
        => /\ is_servername_valid(nameCheck.return_servername)
           /\ return_servername(nameCheck.return_servername)
                 = nameCheck.return_servername

\* PT#000 is accepted, with a name that has no number
OnlyZerosLoseNumber ==
    /\ nameCheck.called
    /\ nameCheck.servername = <<"P", "T", "#", "0", "0", "0">>
    /\ nameCheck.valid
    /\ nameCheck.return_servername = <<"P", "T", "#">>
    /\ ~is_servername_valid(nameCheck.return_servername)

---------------------------------------------------------------------------
(* Properties of add_connection *)

\* the lines of a profile that have dev as one of their words
DevTokenLines(filename) ==
    LET HasDevToken(line) == s_dev \in SeqToSet(Split(line))
    IN  SelectSeq(ProfileFiles[filename].lines, HasDevToken)

\* the device type a device value denotes: tun for tun, tun0, ..., tap for
\* tap, tap0, ..., and no type for anything else
DenotedType(value) ==
    IF Slice(value, 1, 3) = s_tun THEN "tun"
    ELSE IF Slice(value, 1, 3) = s_tap THEN "tap"
    ELSE "other"

\* add_connection gets as far as the device type of the profile
ReachesDeviceType(filename, username, password, delete_cached_cert) ==
    /\ AddValidation(filename, username, password) = "none"
    /\ ProbeOutcome(delete_cached_cert) = "none"
    /\ ProfileFiles[filename].hasVpn

\* C22: when add_connection extracts the device type of a profile, a profile
\* without a line that has the word dev makes it raise VirtualDeviceNotFound;
\* otherwise the value after dev on the first such line decides: a value that
\* denotes tun or tap (tun, tun0, tap) becomes the dev-type of the record to
\* register, any other value (ppp0) makes it raise IllegalVirtualDevice.
C22_DeviceTypeOfFirstDevLine ==
    [][\A filename \in ProfileNames, username \in UsernameInputs,
          password \in PasswordInputs, delete_cached_cert \in CleanupKinds :
          (/\ ReachesDeviceType(filename, username, password, delete_cached_cert)
           /\ AddConnection(filename, username, password, delete_cached_cert)
           /\ \/ DevTokenLines(filename) = <<>>
              \/ Len(Split(DevTokenLines(filename)[1])) >= 2)
          => IF DevTokenLines(filename) = <<>>
             THEN /\ Len(history') = Len(history) + 1
                  /\ IsReturn(Last(history'), "add", "VirtualDeviceNotFound")
             ELSE IF DenotedType(Split(DevTokenLines(filename)[1])[2]) = "other"
             THEN /\ Len(history') = Len(history) + 1
                  /\ IsReturn(Last(history'), "add", "IllegalVirtualDevice")
             ELSE /\ history' = history
                  /\ addCtx'.filename = filename
                  /\ addCtx'.conn.devtype =
                        DenotedType(Split(DevTokenLines(filename)[1])[2])]_vars

\* the same with the first line that contains the characters dev anywhere, and
\* with tun and tap as the only values that are a device type
DeviceTypeOfFirstDevSubstring ==
    [][\A filename \in ProfileNames, username \in UsernameInputs,
          password \in PasswordInputs, delete_cached_cert \in CleanupKinds :
          (/\ ReachesDeviceType(filename, username, password, delete_cached_cert)
           /\ AddConnection(filename, username, password, delete_cached_cert))
          => LET lines == SelectLines(ProfileFiles[filename].lines, s_dev)
                 words == IF lines = <<>> THEN <<>> ELSE Split(lines[1])
             IN  IF Len(words) < 2
                 THEN /\ Len(history') = Len(history) + 1
                      /\ IsReturn(Last(history'), "add", "VirtualDeviceNotFound")
                 ELSE IF words[2] \notin {s_tun, s_tap}
                 THEN /\ Len(history') = Len(history) + 1
                      /\ IsReturn(Last(history'), "add", "IllegalVirtualDevice")
                 ELSE /\ history' = history
                      /\ addCtx'.filename = filename
                      /\ addCtx'.conn.devtype = CharsToName(words[2])]_vars

\* an argument that is not a string, or a string of white space only
BadArgument(x) == ~IsStr(x) \/ IsBlank(x)

\* every bad argument is refused by the input checks and no other is
ChecksRefuseBadArguments ==
    \A filename \in FilenameInputs, username \in UsernameInputs,
       password \in PasswordInputs :
       (AddValidation(filename, username, password) \in {"TypeError", "ValueError"})
          <=> (BadArgument(filename) \/ BadArgument(username)
                  \/ BadArgument(password))

\* calls of add_connection with a bad argument: one bad argument beside two
\* good ones, or three bad ones, with every delete_cached_cert
BadArgumentCalls ==
    {<<f, "user", "secret", d>> : f \in {NONSTR, "  "}, d \in CleanupKinds}
    \cup {<<"tun", u, "secret", d>> : u \in {NONSTR, ""}, d \in CleanupKinds}
    \cup {<<"tun", "user", p, d>> : p \in {NONSTR, "  "}, d \in CleanupKinds}
    \cup {<<f, "", p, d>> : f \in {NONSTR}, p \in {NONSTR, "  "},
                            d \in CleanupKinds}

\* calls of add_connection with good arguments
GoodArgumentCalls ==
    {<<f, "user", "secret", d>> : f \in {"tun", "novpn"}, d \in CleanupKinds}

\* a step in which add_connection returns TypeError or ValueError and does
\* nothing else
ArgumentRejected ==
    /\ Len(history') = Len(history) + 1
    /\ Last(history').op = "add"
    /\ Last(history').outcome \in {"TypeError", "ValueError"}
    /\ UNCHANGED <<connections, active, pending, requestLog, addCtx,
                   cleanupCalls>>

\* a step in which add_connection probes delete_cached_cert and returns
\* NotImplementedError
ProbeRejected ==
    /\ history' = Append(history, Returned("add", "NotImplementedError", "none"))
    /\ cleanupCalls' = Append(cleanupCalls, SENTINEL)
    /\ UNCHANGED <<connections, active, pending, requestLog, addCtx>>

\* a step in which add_connection probes delete_cached_cert and goes on
ProbePassed ==
    /\ cleanupCalls' = Append(cleanupCalls, SENTINEL)
    /\ \/ history' = history
       \/ Last(history').outcome \notin
             {"TypeError", "ValueError", "NotImplementedError"}

\* C23: add_connection called with a filename, username or password that is
\* not a string or is blank returns an error and does nothing else: no probe,
\* no request, no record or active record changed.  Called with good
\* arguments and a delete_cached_cert that raises anything other than
\* not-found on the sentinel, it returns NotImplementedError after the probe,
\* with no request and no record or active record changed.  With a
\* delete_cached_cert that returns or raises not-found on the sentinel it goes
\* on: it returns none of these errors.  The input checks are looked at for
\* every combination of arguments, the steps for the calls of
\* BadArgumentCalls and GoodArgumentCalls; each line about steps reads: a step
\* that is not of the kind named first is not one of the calls named after it.
C23_RejectedBeforeAnyRequest ==
    /\ []ChecksRefuseBadArguments
    /\ [][ /\ \/ ArgumentRejected
              \/ \A c \in BadArgumentCalls :
                    ~AddConnection(c[1], c[2], c[3], c[4])
           /\ \/ ProbeRejected
              \/ \A c \in GoodArgumentCalls :
                    c[4] = "raises_other"
                       => ~AddConnection(c[1], c[2], c[3], c[4])
           /\ \/ ProbePassed
              \/ \A c \in GoodArgumentCalls :
                    c[4] # "raises_other"
                       => ~AddConnection(c[1], c[2], c[3], c[4]) ]_vars

\* an add with a failing probe was rejected while a managed record was active
C23_Witness ==
    /\ Len(history) = 3
    /\ IsReturn(history[1], "add", "None")
    /\ history[2] = Returned("start", "None", "none")
    /\ history[3] = Returned("add", "NotImplementedError", "none")
    /\ cleanupCalls = <<SENTINEL, SENTINEL>>
    /\ ManagedActive # {}
    /\ pending = {}

\* an add whose probe raised not-found registered its record
C23_WitnessNotFound ==
    /\ history = <<Returned("add", "None", "tun")>>
    /\ addCtx.delete_cached_cert = "raises_not_found"
    /\ ManagedAll # {}

\* an add with a blank password was rejected while a managed record existed
C23_WitnessBlank ==
    /\ Len(history) = 2
    /\ IsReturn(history[1], "add", "None")
    /\ history[2] = Returned("add", "ValueError", "none")
    /\ cleanupCalls = <<SENTINEL>>
    /\ ManagedAll # {}

\* a step in which a call of add_connection gets as far as its first request
AddGetsUnderWay == stack = <<>> /\ stack' # <<>> /\ stack'[1] = "add"

\* C24: when add_connection gets as far as its removal and no managed record
\* is registered, its first request is the add request for its profile, and
\* no add_connection ever returns ConnectionNotFound.  remove_connection
\* called when the managed record is registered and not active issues the
\* delete request for that record as the next request, without a stop
\* request, and returns None when the service has deleted the record.
\* Nowhere else is not-found passed over: start_connection and
\* remove_connection called without a managed record return
\* ConnectionNotFound.
C24_NotFoundAbsorbedInTwoPlaces ==
    /\ [](\A i \in DOMAIN history :
             history[i].op = "add" => history[i].outcome # "ConnectionNotFound")
    /\ [][(AddGetsUnderWay /\ ManagedAll = {})
             => /\ history' = history
                /\ stack' = <<"add">>
                /\ requestLog' = Append(requestLog, <<"issue", "add">>)
                /\ \E req \in pending' :
                      /\ pending' = {req}
                      /\ req.async_op = "add"
                      /\ req.filename = addCtx'.filename
                      /\ req.conn.dev = VIRTUAL_DEVICE_NAME]_vars
    /\ [][(RemoveConnection /\ ManagedAll # {} /\ ManagedActive = {})
             => /\ history' = history
                /\ requestLog' = Append(requestLog, <<"issue", "remove">>)
                /\ \E req \in pending' :
                      /\ pending' = {req}
                      /\ req.async_op = "remove"
                      /\ \E c \in ManagedAll : c.uuid = req.target]_vars
    /\ [][(stack = <<"remove">> /\ HasRequest(pending, "remove")
              /\ DynamicCallback(TRUE))
             => /\ history' = Append(history, Returned("remove", "None", "none"))
                /\ ManagedAll' = {}]_vars
    /\ [][(ManagedAll = {} /\ (StartConnection \/ RemoveConnection))
             => /\ Len(history') = Len(history) + 1
                /\ Last(history').outcome = "ConnectionNotFound"
                /\ UNCHANGED <<pending, requestLog, connections, active>>]_vars

\* a record was added, and removed while it was not active, with the add and
\* the delete as the only requests
C24_Witness ==
    /\ history = <<Returned("add", "None", "tap"),
                   Returned("remove", "None", "none")>>
    /\ requestLog = << <<"issue", "add">>, <<"done", "add">>,
                       <<"issue", "remove">>, <<"done", "remove">> >>
    /\ ManagedAll = {}

\* the managed record registered by the add that returned last
AddedRecord ==
    CHOOSE c \in ManagedAll : TRUE

\* C25: when add_connection has returned without an error, exactly one managed
\* record is registered, it is the record of the profile just added and it is
\* not active.  When the add was called right after a start that made the
\* earlier record active, the requests of the add were a stop, a delete and
\* the add, each completed before the next.  A managed record becomes active
\* only when a start request completes.
C25_AddLeavesRecordInactive ==
    /\ []((history # <<>> /\ stack = <<>> /\ IsReturn(Last(history), "add", "None"))
          => /\ Cardinality(ManagedAll) = 1
             /\ AddedRecord.file = Last(history).file
             /\ AddedRecord.uuid = nextUuid - 1
             /\ ManagedActive = {}
             /\ (Len(history) >= 2
                   /\ history[Len(history) - 1] = Returned("start", "None", "none"))
                => /\ Len(requestLog) >= 6
                   /\ SubSeq(requestLog, Len(requestLog) - 5, Len(requestLog)) =
                         << <<"issue", "stop">>, <<"done", "stop">>,
                            <<"issue", "remove">>, <<"done", "remove">>,
                            <<"issue", "add">>, <<"done", "add">> >>)
    /\ [][(ManagedActive = {} /\ ManagedActive' # {})
             => /\ stack = <<"start">>
                /\ HasRequest(pending, "start")
                /\ DynamicCallback(TRUE)]_vars

\* a record was added and started, and another profile was added after it
C25_Witness ==
    /\ history = <<Returned("add", "None", "tun"),
                   Returned("start", "None", "none"),
                   Returned("add", "None", "tap")>>
    /\ Cardinality(ManagedAll) = 1
    /\ AddedRecord.file = "tap"
    /\ ManagedActive = {}
    /\ stack = <<>>

\* C26: a call of add_connection that has got as far as a request is one for
\* a profile whose credentials could be set and whose device type could be
\* extracted; and a step in which add_connection returns
\* AddConnectionCredentialsError, VirtualDeviceNotFound or
\* IllegalVirtualDevice issues no request and leaves the records and the
\* active records what they were, a managed record included.
C26_FailedAddKeepsManagedRecord ==
    /\ []((stack # <<>> /\ stack[1] = "add")
          => /\ ProfileFiles[addCtx.filename].hasVpn
             /\ extract_virtual_device_type(addCtx.filename).err = "none")
    /\ [][(/\ Len(history') = Len(history) + 1
           /\ Last(history').op = "add"
           /\ Last(history').outcome \in
                 {"AddConnectionCredentialsError", "VirtualDeviceNotFound",
                  "IllegalVirtualDevice"})
          => /\ stack = <<>>
             /\ UNCHANGED <<connections, active, pending, requestLog>>
             /\ ManagedAll' = ManagedAll
             /\ ManagedActive' = ManagedActive]_vars

\* an add failed at the device type while the managed record was active
C26_Witness ==
    /\ Len(history) = 3
    /\ history[1] = Returned("add", "None", "tun")
    /\ history[2] = Returned("start", "None", "none")
    /\ history[3] = Returned("add", "IllegalVirtualDevice", "none")
    /\ \E c \in ManagedAll : c.file = "tun" /\ c.uuid \in ManagedActive
    /\ requestLog = << <<"issue", "add">>, <<"done", "add">>,
                       <<"issue", "start">>, <<"done", "start">> >>

\* an add failed at the credentials while the managed record was not active
C26_WitnessCredentials ==
    /\ Len(history) = 2
    /\ history[1] = Returned("add", "None", "tap")
    /\ history[2] = Returned("add", "AddConnectionCredentialsError", "none")
    /\ \E c \in ManagedAll : c.file = "tap"
    /\ ManagedActive = {}

\* an add failed for want of a device line while the managed record was active
C26_WitnessNoDevice ==
    /\ Len(history) = 3
    /\ history[1] = Returned("add", "None", "tun")
    /\ history[2] = Returned("start", "None", "none")
    /\ history[3] = Returned("add", "VirtualDeviceNotFound", "none")
    /\ ManagedActive # {}

\* the service has rejected the add request of the call under way
AddRejected ==
    /\ lastCallback.callback_type = "add"
    /\ lastCallback.raised # "none"
    /\ stack = <<"add">>
    /\ pending = {}

\* the call under way found a managed record and had it deleted before its
\* own request
ReplacedRecord ==
    /\ Len(requestLog) >= 4
    /\ SubSeq(requestLog, Len(requestLog) - 3, Len(requestLog)) =
          << <<"issue", "remove">>, <<"done", "remove">>,
             <<"issue", "add">>, <<"done", "add">> >>

\* C27: when the service has rejected the add request of add_connection, no
\* managed record is registered or active and delete_cached_cert has not been
\* called since the probe; when the call found a managed record, that record
\* was deleted before the add request and is not registered again.
C27_RejectedAddLosesOldRecord ==
    AddRejected =>
        /\ ManagedAll = {}
        /\ ManagedActive = {}
        /\ Last(cleanupCalls) = SENTINEL
        /\ ReplacedRecord =>
              /\ removeConn \notin {c.uuid : c \in SeqToSet(connections)}
              /\ removeConn \notin SeqToSet(active)
              /\ removeConn = nextUuid - 1

\* a record was added and started, and the add of another profile was
\* rejected by the service after the record had been stopped and deleted
C27_Witness ==
    /\ AddRejected
    /\ ReplacedRecord
    /\ ~envCI
    /\ history = <<Returned("add", "None", "tun"),
                   Returned("start", "None", "none")>>
    /\ addCtx.filename = "tap"
    /\ cleanupCalls = <<SENTINEL, "tun", SENTINEL>>
    /\ SubSeq(requestLog, Len(requestLog) - 5, Len(requestLog) - 4) =
          << <<"issue", "stop">>, <<"done", "stop">> >>
    /\ ManagedAll = {}

\* the records that add_connection has had registered
AddedRecords == {c \in SeqToSet(connections) : c.uuid \notin ForeignUuids}

\* C28: every record registered for add_connection, and every record of an
\* outstanding add request, has dev set to the fixed virtual-device name and
\* dev-type set to tun or tap, the value extracted from its profile; every
\* registered one is the record that get_proton_connection finds among all
\* records, and among the active records when it is active.
C28_AddedRecordIsManaged ==
    /\ \A req \in pending :
          req.async_op = "add" =>
             /\ req.conn.dev = VIRTUAL_DEVICE_NAME
             /\ req.conn.devtype \in {"tun", "tap"}
             /\ req.conn.devtype = extract_virtual_device_type(req.filename).value
    /\ \A c \in AddedRecords :
          /\ c.dev = VIRTUAL_DEVICE_NAME
          /\ c.dev # import_connection_from_file(c.file).dev
          /\ c.devtype \in {"tun", "tap"}
          /\ c.devtype = extract_virtual_device_type(c.file).value
          /\ get_proton_connection("all_connections", connections, active)
                = <<c.uuid, c.file>>
          /\ c.uuid \in SeqToSet(active) =>
                get_proton_connection("active_connections", connections, active)
                   = <<c.uuid, c.file>>

\* a tap profile was added and started beside the VPN record of the host
C28_Witness ==
    /\ history = <<Returned("add", "None", "tap"),
                   Returned("start", "None", "none")>>
    /\ \E c \in AddedRecords :
          /\ c.file = "tap"
          /\ c.devtype = "tap"
          /\ c.dev = VIRTUAL_DEVICE_NAME
          /\ c.uuid \in SeqToSet(active)
    /\ \E c \in SeqToSet(connections) : c.type = "vpn" /\ c.uuid \in ForeignUuids

====
